---------------------------- MODULE Spec2Model ----------------------------
(***************************************************************************)
(* Model of patch_review_cli.py: the URL resolver, the patch download, the *)
(* repository provisioner (ensure_repository), branch isolation and the    *)
(* multi-strategy patch application (apply_patch), and the pipeline that   *)
(* main() runs over them.                                                  *)
(*                                                                         *)
(* Python strings are TLA+ strings; Python values that may be None, a      *)
(* string or a bool are tagged records (PyNone, PyStr, PyBool).            *)
(***************************************************************************)
EXTENDS Integers, Sequences, FiniteSets, TLC

(***************************************************************************)
(* Bounds of the model.                                                    *)
(***************************************************************************)
\* invocations of the tool that are started, one after another
MaxRuns == 2

(***************************************************************************)
(* Python values.                                                          *)
(***************************************************************************)
PyNone == [t |-> "None"]
PyStr(s) == [t |-> "str", s |-> s]
PyBool(b) == [t |-> "bool", b |-> b]

\* Python truthiness: None, "" and False are falsy
Truthy(v) ==
    CASE v.t = "None" -> FALSE
      [] v.t = "str" -> v.s # ""
      [] v.t = "bool" -> v.b

(***************************************************************************)
(* String primitives (str methods and the regular-expression pieces).      *)
(***************************************************************************)
\* s[i-1:j] of Python for 1-based i and j: indices beyond the string are clipped
Slice(s, i, j) ==
    LET lo == IF i < 1 THEN 1 ELSE i
        hi == IF j > Len(s) THEN Len(s) ELSE j
    IN  IF lo > hi THEN "" ELSE SubSeq(s, lo, hi)

Char(s, i) == Slice(s, i, i)

\* s[i-1:] for a 1-based i
From(s, i) == Slice(s, i, Len(s))

\* sub in s
Contains(s, sub) ==
    \E i \in 1..(Len(s) - Len(sub) + 1) : Slice(s, i, i + Len(sub) - 1) = sub

\* s.startswith(pre)
StartsWith(s, pre) == Len(s) >= Len(pre) /\ Slice(s, 1, Len(pre)) = pre

\* 1-based index of the first character of s, at or after from, that is one of
\* chars; Len(s) + 1 when there is none
RECURSIVE FindAny(_, _, _)
FindAny(s, chars, from) ==
    IF from > Len(s) THEN Len(s) + 1
    ELSE IF Contains(chars, Char(s, from)) THEN from
    ELSE FindAny(s, chars, from + 1)

\* length of the longest prefix of s made of characters of chars (a greedy
\* character class, [chars]*)
RECURSIVE SpanOf(_, _)
SpanOf(s, chars) ==
    IF s # "" /\ Contains(chars, Char(s, 1)) THEN 1 + SpanOf(From(s, 2), chars)
    ELSE 0

\* length of the longest prefix of s without "/" (the class [^/]*)
SpanNotSlash(s) == FindAny(s, "/", 1) - 1

Digits == "0123456789"
HexLower == "abcdef0123456789"
SchemeChars == "abcdefghijklmnopqrstuvwxyzABCDEFGHIJKLMNOPQRSTUVWXYZ0123456789+-."

\* s.strip("/")
RECURSIVE LStripSlash(_)
LStripSlash(s) == IF StartsWith(s, "/") THEN LStripSlash(From(s, 2)) ELSE s

RECURSIVE RStripSlash(_)
RStripSlash(s) ==
    IF s # "" /\ Char(s, Len(s)) = "/" THEN RStripSlash(Slice(s, 1, Len(s) - 1))
    ELSE s

StripSlash(s) == RStripSlash(LStripSlash(s))

\* s.split("/"): a sequence of strings, <<"">> for the empty string
RECURSIVE SplitSlash(_)
SplitSlash(s) ==
    LET i == FindAny(s, "/", 1)
    IN  IF i > Len(s) THEN <<s>>
        ELSE <<Slice(s, 1, i - 1)>> \o SplitSlash(From(s, i + 1))

\* s.split("/")[-1]
LastComponent(s) == LET parts == SplitSlash(s) IN parts[Len(parts)]

(***************************************************************************)
(* urllib.parse.urlparse: scheme, network location, path, query, fragment. *)
(* Each stage hands what it has split off to the next one.                 *)
(***************************************************************************)
\* the index of the ":" that ends a valid scheme, 0 when the URL has none
SchemeEndAt(url, c) ==
    IF /\ c > 1
       /\ c <= Len(url)
       /\ SpanOf(Slice(url, 1, c - 1), SchemeChars) = c - 1
       /\ ~Contains(Digits \o "+-.", Char(url, 1))
    THEN c
    ELSE 0

SchemeEnd(url) == SchemeEndAt(url, FindAny(url, ":", 1))

\* rest is what follows the fragment-free path: the query is cut at the first "?"
SplitQuery(scheme, netloc, rest, fragment) ==
    [scheme |-> scheme,
     netloc |-> netloc,
     path |-> Slice(rest, 1, FindAny(rest, "?", 1) - 1),
     query |-> From(rest, FindAny(rest, "?", 1) + 1),
     fragment |-> fragment]

\* the fragment is cut at the first "#"
SplitFragment(scheme, netloc, rest) ==
    SplitQuery(scheme, netloc,
               Slice(rest, 1, FindAny(rest, "#", 1) - 1),
               From(rest, FindAny(rest, "#", 1) + 1))

\* after "//" the network location runs to the first of "/", "?" and "#"
SplitNetloc(scheme, rest) ==
    IF StartsWith(rest, "//")
    THEN SplitFragment(scheme,
                       Slice(rest, 3, FindAny(rest, "/?#", 3) - 1),
                       From(rest, FindAny(rest, "/?#", 3)))
    ELSE SplitFragment(scheme, "", rest)

urlparse(url) ==
    SplitNetloc(Slice(url, 1, SchemeEnd(url) - 1), From(url, SchemeEnd(url) + 1))

(***************************************************************************)
(* get_repo_info_from_url: PyNone or the tuple <<repo_url, owner, repo>>.  *)
(***************************************************************************)
FirefoxLocator ==
    <<"https://github.com/mozilla-firefox/firefox/", "mozilla-firefox", "firefox">>

\* owner and repo taken from the last two parts of the path
GithubRepoInfoLastTwo(path_parts) ==
    IF Len(path_parts) >= 2
    THEN <<"https://github.com/" \o path_parts[Len(path_parts) - 1] \o "/"
               \o path_parts[Len(path_parts)] \o ".git",
           path_parts[Len(path_parts) - 1], path_parts[Len(path_parts)]>>
    ELSE PyNone

\* the GitHub branch, on path_parts = parsed_url.path.strip("/").split("/")
GithubRepoInfo(path_parts) ==
    IF Len(path_parts) >= 2
    THEN <<"https://github.com/" \o path_parts[1] \o "/" \o path_parts[2] \o ".git",
           path_parts[1], path_parts[2]>>
    ELSE PyNone

RepoInfoOfParsed(parsed_url) ==
    IF Contains(parsed_url.netloc, "github.com")
    THEN GithubRepoInfo(SplitSlash(StripSlash(parsed_url.path)))
    ELSE IF Contains(parsed_url.netloc, "phabricator")
            /\ Contains(parsed_url.netloc, "mozilla")
         THEN FirefoxLocator
         ELSE PyNone

get_repo_info_from_url(url) == RepoInfoOfParsed(urlparse(url))

(***************************************************************************)
(* re.match for the patterns of the downloaders.  A match state holds what *)
(* is left of the string and the groups captured so far; re.match anchors  *)
(* at the start of the string only.  In these patterns every greedy class  *)
(* is followed by a literal that starts with a character outside the       *)
(* class, or ends the pattern, so the greedy match is the only one.        *)
(***************************************************************************)
MFail == [ok |-> FALSE, rest |-> "", groups |-> <<>>]

MStart(s) == [ok |-> TRUE, rest |-> s, groups |-> <<>>]

\* a literal
MLit(m, lit) ==
    IF m.ok /\ StartsWith(m.rest, lit)
    THEN [m EXCEPT !.rest = From(m.rest, Len(lit) + 1)]
    ELSE MFail

\* a group of the next n characters, n >= 1
MGroup(m, n) ==
    IF m.ok /\ n >= 1
    THEN [ok |-> TRUE, rest |-> From(m.rest, n + 1),
          groups |-> Append(m.groups, Slice(m.rest, 1, n))]
    ELSE MFail

\* ([chars]+)
MClass(m, chars) == MGroup(m, SpanOf(m.rest, chars))

\* ([^/]+)
MNotSlash(m) == MGroup(m, SpanNotSlash(m.rest))

\* the pattern without its literal /pull/ or /commit/: any third segment matches
GithubMatchAnyKind(url, kind, class) ==
    MClass(MLit(MNotSlash(MLit(MNotSlash(MLit(MNotSlash(MLit(MStart(url),
        "https://github.com/")), "/")), "/")), "/"), class)

\* https://github\.com/([^/]+)/([^/]+)/<kind>/(<class>+)
GithubMatch(url, kind, class) ==
    MClass(MLit(MNotSlash(MLit(MNotSlash(MLit(MStart(url),
        "https://github.com/")), "/")), "/" \o kind \o "/"), class)

\* the URL download_github_patch requests for a match of the pull pattern (kind
\* "pull") or of the commit pattern (kind "commit")
GithubDiffUrl(m, kind) ==
    "https://github.com/" \o m.groups[1] \o "/" \o m.groups[2]
        \o "/" \o kind \o "/" \o m.groups[3] \o ".diff"

\* download_github_patch up to the request: the pull pattern is tried first;
\* PyNone when neither matches (ValueError)
GithubPatchUrlOf(pr_match, commit_match) ==
    IF pr_match.ok THEN PyStr(GithubDiffUrl(pr_match, "pull"))
    ELSE IF commit_match.ok THEN PyStr(GithubDiffUrl(commit_match, "commit"))
    ELSE PyNone

github_patch_url(url) ==
    GithubPatchUrlOf(GithubMatch(url, "pull", Digits), GithubMatch(url, "commit", HexLower))

\* (https://[^/]+)/D(\d+): the first group is "https://" and the host together
PhabricatorMatch(url) ==
    MClass(MLit(MNotSlash(MLit(MStart(url), "https://")), "/D"), Digits)

PhabricatorPatchUrlOf(match) ==
    IF match.ok
    THEN PyStr("https://" \o match.groups[1] \o "/D" \o match.groups[2] \o "?download=true")
    ELSE PyNone

\* download_phabricator_patch up to the request; PyNone when it raises ValueError
phabricator_patch_url(url) == PhabricatorPatchUrlOf(PhabricatorMatch(url))

(***************************************************************************)
(* main(): which downloader is called for a URL.                           *)
(***************************************************************************)
DownloaderOfParsed(parsed_url) ==
    IF Contains(parsed_url.netloc, "github.com") THEN "github"
    ELSE IF StartsWith(parsed_url.path, "/D") THEN "phabricator"
    ELSE "unsupported"

\* "github", "phabricator" or "unsupported"
Downloader(url) == DownloaderOfParsed(urlparse(url))

\* the URL the chosen downloader requests; PyNone when it raises ValueError
PatchUrlBy(downloader, url) ==
    IF downloader = "github" THEN github_patch_url(url)
    ELSE phabricator_patch_url(url)

PatchUrl(url) == PatchUrlBy(Downloader(url), url)

(***************************************************************************)
(* Inputs of an invocation and the environment around it.                  *)
(***************************************************************************)
\* the process slots: an invocation of the tool is one operating-system process
Procs == {"p1", "p2"}

\* the slot in which the sequential specifications run their invocations
FirstSlot == "p1"

\* command-line URLs: supported ones, malformed ones and look-alikes
URLs ==
    {"https://github.com/acme/widget/pull/42",
     "https://github.com/acme/widget/commit/abc123?w=1#diff",
     "https://github.com/acme/widget/issues/7",
     "https://github.com/acme",
     "https://github.com/acme//pull/1",
     "https://notgithub.com/acme/widget/pull/42",
     "https://gitlab.com/acme/widget/pull/42",
     "https://phabricator.services.mozilla.com/D123",
     "https://phabricator.services.mozilla.com/differential/D123",
     "http://phabricator.services.mozilla.com/D123"}

\* os.getpid() of an invocation, as printed in decimal
Pids == {"101", "202"}

\* args.base_dir, already expanded
BaseDir == "/home/user/repos"

\* str(Path(base_dir).expanduser() / owner / repo); an empty component adds nothing
RepoPathOf(base_dir, owner, repo) ==
    base_dir \o (IF owner = "" THEN "" ELSE "/" \o owner)
             \o (IF repo = "" THEN "" ELSE "/" \o repo)

\* the local paths the URLs can lead to
RepoPathOfInfo(base_dir, repo_info) == RepoPathOf(base_dir, repo_info[2], repo_info[3])

RepoPaths ==
    {RepoPathOfInfo(BaseDir, get_repo_info_from_url(u)) :
        u \in {v \in URLs : get_repo_info_from_url(v) # PyNone}}

\* what the operating system and the external tools answer to one invocation of
\* subprocess.run: exit status 0, a non-zero exit status, or an exception of
\* class Exception (the working directory is gone, the shell cannot be started)
RawOutcomes == {"ok", "fail", "exc"}

\* what an HTTP GET of the patch answers
HttpOutcomes == {"200", "404", "neterror"}

\* the body of a successful download: the diff the endpoint serves
PatchText(patch_url) == "diff from " \o patch_url

(***************************************************************************)
(* run_command: the value returned for what subprocess.run did.  stdout is *)
(* the captured, stripped output of a command that exited with status 0.   *)
(* [t |-> "raise"] stands for an exception leaving run_command.            *)
(***************************************************************************)
\* run_command without its except clause: the exception leaves it
run_command_no_except(raw, stdout, capture) ==
    CASE raw = "exc" -> [t |-> "raise"]
      [] raw = "ok" -> IF capture THEN PyStr(stdout) ELSE PyBool(TRUE)
      [] raw = "fail" -> IF capture THEN PyNone ELSE PyBool(FALSE)

run_command(raw, stdout, capture) ==
    CASE raw = "exc" -> PyNone
      [] raw = "ok" -> IF capture THEN PyStr(stdout) ELSE PyBool(TRUE)
      [] raw = "fail" -> IF capture THEN PyNone ELSE PyBool(FALSE)

\* what run_command prints
run_command_prints(raw, capture) ==
    CASE raw = "exc" -> {"Error running command"}
      [] raw = "fail" /\ capture -> {"Command failed"}
      [] OTHER -> {}

(***************************************************************************)
(* The local repositories under the base directory.                        *)
(***************************************************************************)
\* a path with nothing at it.  fs: what is at the path; head: the branch checked
\* out; branches: the local branches; pulled: the branches a git pull has merged
\* the remote into; tracked, untracked: local changes of the working tree
NoRepo == [fs |-> "absent", head |-> "", branches |-> {}, pulled |-> {},
           tracked |-> FALSE, untracked |-> FALSE]

\* a clone as git leaves it, checked out on the remote's default branch
FreshClone == [fs |-> "git", head |-> "main", branches |-> {"main"}, pulled |-> {},
               tracked |-> FALSE, untracked |-> FALSE]

\* what may be at a repository path before an invocation: nothing, a directory
\* without .git, a clean clone, a clone with local edits, or the clone an
\* earlier invocation left behind (on its isolation branch, patch applied)
InitRepoStates ==
    {NoRepo,
     [NoRepo EXCEPT !.fs = "nogit"],
     FreshClone,
     [FreshClone EXCEPT !.tracked = TRUE]}
    \cup {[FreshClone EXCEPT !.head = "patch-review-" \o q,
                             !.branches = {"main", "patch-review-" \o q},
                             !.tracked = TRUE,
                             !.untracked = TRUE] : q \in Pids}

(***************************************************************************)
(* State.                                                                  *)
(***************************************************************************)
VARIABLES
    pc,         \* pc[p]: where invocation p stands
    main,       \* main[p]: the locals of main()
    ap,         \* ap[p]: the locals of apply_patch()
    log,        \* log[p]: the external effects of the invocation, in order
    out,        \* out[p]: the messages printed so far
    code,       \* code[p]: the exit status, "none" while running
    analysis,   \* analysis[p]: the arguments analysis was started with, or PyNone
    repo,       \* repo[path]: the directory and the git state at a repository path
    tmp,        \* the temporary files that exist
    runs,       \* invocations started so far
    ensured     \* the calls of ensure_repository so far, over all invocations

vars == <<pc, main, ap, log, out, code, analysis, repo, tmp, runs, ensured>>

MainInit == [url |-> "", no_checkout |-> FALSE, no_apply |-> FALSE, pid |-> "",
             repo_info |-> PyNone, patch_content |-> PyNone, repo_path |-> PyNone,
             patch_applied |-> PyNone]

ApInit == [status_output |-> PyNone, main_branch |-> PyNone, branches |-> PyNone,
           branch_name |-> PyNone, patch_file |-> PyNone, conflict_output |-> PyNone,
           ret |-> PyNone]

Init ==
    /\ pc = [p \in Procs |-> "idle"]
    /\ main = [p \in Procs |-> MainInit]
    /\ ap = [p \in Procs |-> ApInit]
    /\ log = [p \in Procs |-> <<>>]
    /\ out = [p \in Procs |-> {}]
    /\ code = [p \in Procs |-> "none"]
    /\ analysis = [p \in Procs |-> PyNone]
    /\ \E r \in InitRepoStates : repo = [path \in RepoPaths |-> r]
    /\ tmp = {}
    /\ runs = 0
    /\ ensured = <<>>

\* one external effect, with the branch checked out where it ran ("" outside a clone)
Effect(op, ok, head) == [op |-> op, ok |-> ok, head |-> head]

Logged(p, op, ok, head) == log' = [log EXCEPT ![p] = Append(@, Effect(op, ok, head))]

Printed(p, msgs) == out' = [out EXCEPT ![p] = @ \cup msgs]

\* sys.exit(status)
Exit(p, status) ==
    /\ pc' = [pc EXCEPT ![p] = "exited"]
    /\ code' = [code EXCEPT ![p] = status]

(***************************************************************************)
(* main(): argument parsing and the resolver.                              *)
(***************************************************************************)
\* a new invocation: parser.parse_args()
Invoke(p, url, no_checkout, no_apply, pid) ==
    /\ pc[p] \in {"idle", "exited", "crashed"}
    /\ pc' = [pc EXCEPT ![p] = "resolve"]
    /\ main' = [main EXCEPT ![p] = [MainInit EXCEPT !.url = url,
                                                    !.no_checkout = no_checkout,
                                                    !.no_apply = no_apply,
                                                    !.pid = pid]]
    /\ ap' = [ap EXCEPT ![p] = ApInit]
    /\ log' = [log EXCEPT ![p] = <<>>]
    /\ out' = [out EXCEPT ![p] = {}]
    /\ code' = [code EXCEPT ![p] = "none"]
    /\ analysis' = [analysis EXCEPT ![p] = PyNone]
    /\ runs' = runs + 1
    /\ UNCHANGED <<repo, tmp, ensured>>

\* the one invocation of the specification Spec
Start(p) ==
    /\ p = FirstSlot
    /\ runs = 0
    /\ \E url \in URLs, no_checkout \in BOOLEAN, no_apply \in BOOLEAN, pid \in Pids :
          Invoke(p, url, no_checkout, no_apply, pid)

\* main() returning instead of sys.exit(1) when the resolver finds nothing
ResolveWithExitZero(p, repo_info) ==
    /\ main' = [main EXCEPT ![p].repo_info = repo_info]
    /\ IF repo_info = PyNone
       THEN /\ Printed(p, {"Error: Could not extract repository information from URL"})
            /\ Exit(p, "0")
       ELSE /\ Printed(p, {"Repository"})
            /\ pc' = [pc EXCEPT ![p] = "download"]
            /\ UNCHANGED code

ResolveWith(p, repo_info) ==
    /\ main' = [main EXCEPT ![p].repo_info = repo_info]
    /\ IF repo_info = PyNone
       THEN /\ Printed(p, {"Error: Could not extract repository information from URL"})
            /\ Exit(p, "1")
       ELSE /\ Printed(p, {"Repository"})
            /\ pc' = [pc EXCEPT ![p] = "download"]
            /\ UNCHANGED code

Resolve(p) ==
    /\ pc[p] = "resolve"
    /\ ResolveWith(p, get_repo_info_from_url(main[p].url))
    /\ UNCHANGED <<ap, log, analysis, repo, tmp, runs, ensured>>

(***************************************************************************)
(* main(): the download of the patch.                                      *)
(***************************************************************************)
\* the download without response.raise_for_status(): an error page is the patch
DownloadWithNoRaise(p, downloader, patch_url) ==
    CASE downloader = "unsupported" ->
           /\ Printed(p, {"Error: Unsupported URL format"})
           /\ Exit(p, "1")
           /\ UNCHANGED <<main, log>>
      [] downloader # "unsupported" /\ patch_url = PyNone ->
           /\ Printed(p, {"Downloading patch", "Error downloading patch"})
           /\ Exit(p, "1")
           /\ UNCHANGED <<main, log>>
      [] OTHER ->
           \E http \in HttpOutcomes :
              /\ Logged(p, "http get " \o patch_url.s, http = "200", "")
              /\ IF http # "neterror"
                 THEN /\ main' = [main EXCEPT
                             ![p].patch_content = PyStr(PatchText(patch_url.s))]
                      /\ Printed(p, {"Downloading patch"})
                      /\ pc' = [pc EXCEPT ![p] = "comments"]
                      /\ UNCHANGED code
                 ELSE /\ Printed(p, {"Downloading patch", "Error downloading patch"})
                      /\ Exit(p, "1")
                      /\ UNCHANGED main

\* downloader: the branch main() takes; patch_url: the request, PyNone for ValueError
DownloadWith(p, downloader, patch_url) ==
    CASE downloader = "unsupported" ->
           /\ Printed(p, {"Error: Unsupported URL format"})
           /\ Exit(p, "1")
           /\ UNCHANGED <<main, log>>
      [] downloader # "unsupported" /\ patch_url = PyNone ->
           \* ValueError, caught by except Exception
           /\ Printed(p, {"Downloading patch", "Error downloading patch"})
           /\ Exit(p, "1")
           /\ UNCHANGED <<main, log>>
      [] OTHER ->
           \E http \in HttpOutcomes :
              /\ Logged(p, "http get " \o patch_url.s, http = "200", "")
              /\ IF http = "200"
                 THEN /\ main' = [main EXCEPT
                             ![p].patch_content = PyStr(PatchText(patch_url.s))]
                      /\ Printed(p, {"Downloading patch"})
                      /\ pc' = [pc EXCEPT ![p] = "comments"]
                      /\ UNCHANGED code
                 ELSE \* raise_for_status or an exception of requests
                      /\ Printed(p, {"Downloading patch", "Error downloading patch"})
                      /\ Exit(p, "1")
                      /\ UNCHANGED main

Download(p) ==
    /\ pc[p] = "download"
    /\ DownloadWith(p, Downloader(main[p].url), PatchUrl(main[p].url))
    /\ UNCHANGED <<ap, analysis, repo, tmp, runs, ensured>>

\* the comment fetch (its result only feeds the prompt), then the choice between
\* analysis without a checkout and the repository pipeline
FetchComments(p) ==
    /\ pc[p] = "comments"
    /\ Printed(p, {"Fetching existing comments and reviews..."})
    /\ pc' = [pc EXCEPT ![p] = IF main[p].no_checkout THEN "analyze_patch_only" ELSE "ensure"]
    /\ UNCHANGED <<main, ap, log, code, analysis, repo, tmp, runs, ensured>>

\* --no-checkout: the patch text alone is analysed, main() returns
AnalyzePatchOnly(p) ==
    /\ pc[p] = "analyze_patch_only"
    /\ analysis' = [analysis EXCEPT ![p] =
            [repo_path |-> PyNone, patch_content |-> main[p].patch_content]]
    /\ Logged(p, "claude --print", TRUE, "")
    /\ Printed(p, {"Analyzing patch without repository checkout..."})
    /\ Exit(p, "0")
    /\ UNCHANGED <<main, ap, repo, tmp, runs, ensured>>

(***************************************************************************)
(* ensure_repository, and main()'s check of what it returns.               *)
(***************************************************************************)
\* a test of a path that never exists
IsProvisionedNever(r) == FALSE

\* repo_path.exists() and (repo_path / ".git").exists()
IsProvisioned(r) == r.fs = "git"

\* a clone that removes what is at the path when it fails
AfterCloneRemoving(r, raw, partial) == IF raw = "ok" THEN FreshClone ELSE NoRepo

\* what a path holds after git clone: a clone on success; after a failure what
\* was there, or a partial directory that `partial` says was left behind
AfterClone(r, raw, partial) ==
    IF raw = "ok" THEN FreshClone
    ELSE IF partial THEN [r EXCEPT !.fs = "nogit"]
    ELSE r

\* one call of ensure_repository as the history keeps it
EnsureCall(repo_url, owner, repo_name, base_dir, op, ok, ret) ==
    [repo_url |-> repo_url, owner |-> owner, repo |-> repo_name, base_dir |-> base_dir,
     op |-> op, ok |-> ok, ret |-> ret]

\* a failed fetch treated like a failed clone: None, and main() exits
EnsureFetchFatal(p, info, repo_path, v) ==
    /\ Logged(p, "git fetch origin", Truthy(v), repo[repo_path].head)
    /\ Printed(p, {"Repository already exists", "Updating repository...",
                   IF Truthy(v) THEN "Repository updated successfully"
                   ELSE "Warning: Failed to update repository"})
    /\ ensured' = Append(ensured, EnsureCall(info[1], info[2], info[3], BaseDir, "fetch",
                              Truthy(v), IF Truthy(v) THEN PyStr(repo_path) ELSE PyNone))
    /\ UNCHANGED repo
    /\ IF Truthy(v)
       THEN /\ main' = [main EXCEPT ![p].repo_path = PyStr(repo_path),
                                    ![p].patch_applied = PyBool(TRUE)]
            /\ pc' = [pc EXCEPT ![p] = IF main[p].no_apply THEN "analyze" ELSE "status"]
            /\ UNCHANGED code
       ELSE /\ main' = [main EXCEPT ![p].repo_path = PyNone]
            /\ Exit(p, "1")

\* the already-provisioned branch: fetch, and the path is returned whatever the result
EnsureFetch(p, info, repo_path, v) ==
    /\ Logged(p, "git fetch origin", Truthy(v), repo[repo_path].head)
    /\ Printed(p, {"Repository already exists", "Updating repository...",
                   IF Truthy(v) THEN "Repository updated successfully"
                   ELSE "Warning: Failed to update repository"})
    /\ ensured' = Append(ensured, EnsureCall(info[1], info[2], info[3], BaseDir,
                                             "fetch", Truthy(v), PyStr(repo_path)))
    /\ main' = [main EXCEPT ![p].repo_path = PyStr(repo_path), ![p].patch_applied = PyBool(TRUE)]
    /\ pc' = [pc EXCEPT ![p] = IF main[p].no_apply THEN "analyze" ELSE "status"]
    /\ UNCHANGED <<code, repo>>

\* the clone branch: parent directories, git clone, None when it fails
EnsureClone(p, info, repo_path, raw, v, partial) ==
    /\ log' = [log EXCEPT ![p] = @ \o <<Effect("mkdir -p parent", TRUE, ""),
                                        Effect("git clone", Truthy(v), "")>>]
    /\ repo' = [repo EXCEPT ![repo_path] = AfterClone(@, raw, partial)]
    /\ ensured' = Append(ensured, EnsureCall(info[1], info[2], info[3], BaseDir, "clone",
                              Truthy(v), IF Truthy(v) THEN PyStr(repo_path) ELSE PyNone))
    /\ IF Truthy(v)
       THEN /\ Printed(p, {"Cloning repository", "Repository cloned successfully"})
            /\ main' = [main EXCEPT ![p].repo_path = PyStr(repo_path),
                                    ![p].patch_applied = PyBool(TRUE)]
            /\ pc' = [pc EXCEPT ![p] = IF main[p].no_apply THEN "analyze" ELSE "status"]
            /\ UNCHANGED code
       ELSE /\ Printed(p, {"Cloning repository", "Error: Failed to clone repository",
                           "Error: Failed to ensure repository is available"}
                          \cup run_command_prints(raw, FALSE))
            /\ main' = [main EXCEPT ![p].repo_path = PyNone]
            /\ Exit(p, "1")

\* an exception that leaves run_command ends the process with a traceback
EnsureRaise(p, repo_path) ==
    /\ Logged(p, IF IsProvisioned(repo[repo_path]) THEN "git fetch origin" ELSE "git clone",
              FALSE, repo[repo_path].head)
    /\ pc' = [pc EXCEPT ![p] = "crashed"]
    /\ code' = [code EXCEPT ![p] = "1"]
    /\ UNCHANGED <<main, out, repo, ensured>>

EnsureWith(p, info, repo_path, raw, partial, v) ==
    IF v.t = "raise"
    THEN ~partial /\ EnsureRaise(p, repo_path)
    ELSE IF IsProvisioned(repo[repo_path])
    THEN /\ ~partial
         /\ EnsureFetch(p, info, repo_path, v)
    ELSE /\ partial => raw # "ok" /\ repo[repo_path].fs = "absent"
         /\ EnsureClone(p, info, repo_path, raw, v, partial)

EnsureAt(p, info, repo_path) ==
    \E raw \in RawOutcomes, partial \in BOOLEAN :
        EnsureWith(p, info, repo_path, raw, partial, run_command(raw, "", FALSE))

EnsureRepository(p) ==
    /\ pc[p] = "ensure"
    /\ EnsureAt(p, main[p].repo_info, RepoPathOfInfo(BaseDir, main[p].repo_info))
    /\ UNCHANGED <<ap, analysis, tmp, runs>>

(***************************************************************************)
(* apply_patch(patch_content, repo_path): main() calls it with the default *)
(* create_branch=True.  One step per external command.                     *)
(***************************************************************************)
\* the repository apply_patch works in
Here(p) == main[p].repo_path.s

\* the next position after a command returned v; an exception that leaves
\* run_command outside the try block ends the process with a traceback
Continue(p, v, next) ==
    IF v.t = "raise"
    THEN /\ pc' = [pc EXCEPT ![p] = "crashed"]
         /\ code' = [code EXCEPT ![p] = "1"]
    ELSE /\ pc' = [pc EXCEPT ![p] = next]
         /\ UNCHANGED code

\* the same inside the try block: the finally clause runs first
ContinueInTry(p, v, next) ==
    /\ pc' = [pc EXCEPT ![p] = IF v.t = "raise" THEN "finally_raise" ELSE next]
    /\ UNCHANGED code

\* one git command run through run_command in the repository
Git(p, cmd, raw, capture, v) ==
    /\ Logged(p, cmd, v.t # "raise" /\ raw = "ok", repo[Here(p)].head)
    /\ Printed(p, run_command_prints(raw, capture))

GitPrinting(p, cmd, raw, capture, v, msgs) ==
    /\ Logged(p, cmd, v.t # "raise" /\ raw = "ok", repo[Here(p)].head)
    /\ Printed(p, run_command_prints(raw, capture) \cup msgs)

\* git status --porcelain, stripped
Porcelain(r) ==
    IF r.tracked /\ r.untracked THEN "M src/lib.rs\n?? notes.txt"
    ELSE IF r.tracked THEN "M src/lib.rs"
    ELSE IF r.untracked THEN "?? notes.txt"
    ELSE ""

\* a failed status query taken for a tree with changes
StatusWithStashOnFailure(p, raw, v) ==
    /\ Git(p, "git status --porcelain", raw, TRUE, v)
    /\ ap' = [ap EXCEPT ![p].status_output = v]
    /\ Continue(p, v, IF v.t # "raise" /\ (Truthy(v) \/ v = PyNone) THEN "stash" ELSE "symref")

StatusWith(p, raw, v) ==
    /\ Git(p, "git status --porcelain", raw, TRUE, v)
    /\ ap' = [ap EXCEPT ![p].status_output = v]
    /\ Continue(p, v, IF v.t # "raise" /\ Truthy(v) THEN "stash" ELSE "symref")

Status(p) ==
    /\ pc[p] = "status"
    /\ \E raw \in RawOutcomes :
          StatusWith(p, raw, run_command(raw, Porcelain(repo[Here(p)]), TRUE))
    /\ UNCHANGED <<main, analysis, repo, tmp, runs, ensured>>

\* a failed stash that goes straight on, without the reset and the clean
StashWithNoReset(p, raw, v) ==
    /\ GitPrinting(p, "git stash push -u -m 'Automated stash before patch review'", raw,
                   FALSE, v, {"Found uncommitted changes, stashing them..."})
    /\ repo' = [repo EXCEPT ![Here(p)] =
                   IF raw = "ok" THEN [@ EXCEPT !.tracked = FALSE, !.untracked = FALSE] ELSE @]
    /\ Continue(p, v, "symref")

StashWith(p, raw, v) ==
    /\ GitPrinting(p, "git stash push -u -m 'Automated stash before patch review'", raw,
                   FALSE, v, {"Found uncommitted changes, stashing them..."})
    /\ repo' = [repo EXCEPT ![Here(p)] =
                   IF raw = "ok" THEN [@ EXCEPT !.tracked = FALSE, !.untracked = FALSE] ELSE @]
    /\ Continue(p, v, IF v.t # "raise" /\ ~Truthy(v) THEN "reset" ELSE "symref")

Stash(p) ==
    /\ pc[p] = "stash"
    /\ \E raw \in RawOutcomes : StashWith(p, raw, run_command(raw, "", FALSE))
    /\ UNCHANGED <<main, ap, analysis, tmp, runs, ensured>>

ResetWith(p, raw, v) ==
    /\ GitPrinting(p, "git reset --hard HEAD", raw, FALSE, v,
                   {"Failed to stash changes, trying hard reset..."})
    /\ repo' = [repo EXCEPT ![Here(p)] = IF raw = "ok" THEN [@ EXCEPT !.tracked = FALSE] ELSE @]
    /\ Continue(p, v, "clean")

Reset(p) ==
    /\ pc[p] = "reset"
    /\ \E raw \in RawOutcomes : ResetWith(p, raw, run_command(raw, "", FALSE))
    /\ UNCHANGED <<main, ap, analysis, tmp, runs, ensured>>

CleanWith(p, raw, v) ==
    /\ Git(p, "git clean -fd", raw, FALSE, v)
    /\ repo' = [repo EXCEPT ![Here(p)] = IF raw = "ok" THEN [@ EXCEPT !.untracked = FALSE] ELSE @]
    /\ Continue(p, v, "symref")

Clean(p) ==
    /\ pc[p] = "clean"
    /\ \E raw \in RawOutcomes : CleanWith(p, raw, run_command(raw, "", FALSE))
    /\ UNCHANGED <<main, ap, analysis, tmp, runs, ensured>>

\* a branch name without the process id
BranchNameFixed(pid) == "patch-review"

\* f"patch-review-{os.getpid()}"
BranchName(pid) == "patch-review-" \o pid

\* what git symbolic-ref refs/remotes/origin/HEAD may print
SymbolicRefs ==
    {"refs/remotes/origin/main", "refs/remotes/origin/master",
     "refs/remotes/origin/release/v1"}

\* what git branch -r may print (stripped): the second holds both conventional
\* names, the fourth holds origin/main only as a part of another name, the last
\* is a repository without remote branches
BranchListings ==
    {"origin/HEAD -> origin/main\n  origin/main",
     "origin/main\n  origin/master",
     "origin/dev\n  origin/master",
     "origin/maintenance",
     "origin/dev",
     ""}

\* main_branch when the symbolic reference was read: main_branch.split("/")[-1]
FromSymbolicRef(symref) == LastComponent(symref.s)

\* the listing searched for origin/master before origin/main
DetectMainBranchMasterFirst(branches) ==
    IF Truthy(branches) /\ Contains(branches.s, "origin/master") THEN "master"
    ELSE IF Truthy(branches) /\ Contains(branches.s, "origin/main") THEN "main"
    ELSE "main"

\* main_branch from the listing of the remote branches
DetectMainBranch(branches) ==
    IF Truthy(branches) /\ Contains(branches.s, "origin/main") THEN "main"
    ELSE IF Truthy(branches) /\ Contains(branches.s, "origin/master") THEN "master"
    ELSE "main"

SymbolicRefWith(p, raw, v) ==
    /\ GitPrinting(p, "git symbolic-ref refs/remotes/origin/HEAD", raw, TRUE, v,
                   {"Creating branch"})
    /\ IF v.t # "raise" /\ Truthy(v)
       THEN /\ ap' = [ap EXCEPT ![p].branch_name = PyStr(BranchName(main[p].pid)),
                                ![p].main_branch = PyStr(FromSymbolicRef(v))]
            /\ Continue(p, v, "checkout")
       ELSE /\ ap' = [ap EXCEPT ![p].branch_name = PyStr(BranchName(main[p].pid)),
                                ![p].main_branch = v]
            /\ Continue(p, v, "branch_r")

SymbolicRef(p) ==
    /\ pc[p] = "symref"
    /\ \/ \E s \in SymbolicRefs : SymbolicRefWith(p, "ok", run_command("ok", s, TRUE))
       \/ \E raw \in RawOutcomes \ {"ok"} : SymbolicRefWith(p, raw, run_command(raw, "", TRUE))
    /\ UNCHANGED <<main, analysis, repo, tmp, runs, ensured>>

BranchListWith(p, raw, v) ==
    /\ Git(p, "git branch -r", raw, TRUE, v)
    /\ ap' = [ap EXCEPT ![p].branches = v,
                        ![p].main_branch = IF v.t = "raise" THEN @ ELSE PyStr(DetectMainBranch(v))]
    /\ Continue(p, v, "checkout")

BranchList(p) ==
    /\ pc[p] = "branch_r"
    /\ \/ \E s \in BranchListings : BranchListWith(p, "ok", run_command("ok", s, TRUE))
       \/ \E raw \in RawOutcomes \ {"ok"} : BranchListWith(p, raw, run_command(raw, "", TRUE))
    /\ UNCHANGED <<main, analysis, repo, tmp, runs, ensured>>

\* git checkout <branch>: the branch becomes the checked-out one (a local
\* branch is made for a remote one)
CheckedOut(r, branch) == [r EXCEPT !.head = branch, !.branches = @ \cup {branch}]

CheckoutMainWith(p, raw, v) ==
    /\ GitPrinting(p, "git checkout " \o ap[p].main_branch.s, raw, FALSE, v,
                   {"Switching to default branch..."})
    /\ repo' = [repo EXCEPT ![Here(p)] =
                   IF raw = "ok" THEN CheckedOut(@, ap[p].main_branch.s) ELSE @]
    /\ Continue(p, v, "pull")

CheckoutMain(p) ==
    /\ pc[p] = "checkout"
    /\ \E raw \in RawOutcomes : CheckoutMainWith(p, raw, run_command(raw, "", FALSE))
    /\ UNCHANGED <<main, ap, analysis, tmp, runs, ensured>>

\* git pull origin <branch> merges what it fetched into the branch that is
\* checked out, whatever branch was named: that branch is now among the pulled
PulledInto(r) == [r EXCEPT !.pulled = @ \cup {r.head}]

\* a failed pull that ends apply_patch
PullWithFatal(p, raw, v) ==
    /\ GitPrinting(p, "git pull origin " \o ap[p].main_branch.s, raw, FALSE, v,
                   {"Updating default branch..."})
    /\ repo' = [repo EXCEPT ![Here(p)] = IF raw = "ok" THEN PulledInto(@) ELSE @]
    /\ Continue(p, v, IF v.t # "raise" /\ ~Truthy(v) THEN "returned" ELSE "checkout_b")

PullWith(p, raw, v) ==
    /\ GitPrinting(p, "git pull origin " \o ap[p].main_branch.s, raw, FALSE, v,
                   {"Updating default branch..."})
    /\ repo' = [repo EXCEPT ![Here(p)] = IF raw = "ok" THEN PulledInto(@) ELSE @]
    /\ Continue(p, v, "checkout_b")

Pull(p) ==
    /\ pc[p] = "pull"
    /\ \E raw \in RawOutcomes : PullWith(p, raw, run_command(raw, "", FALSE))
    /\ UNCHANGED <<main, ap, analysis, tmp, runs, ensured>>

\* git checkout -b <branch> cannot succeed when the branch exists
CanCreate(r, branch, raw) == raw = "ok" => branch \notin r.branches

\* git branch in place of git checkout -b: the branch is made, not checked out
CheckoutBWithBranchOnly(p, raw, v) ==
    /\ repo' = [repo EXCEPT ![Here(p)] =
                   IF raw = "ok" THEN [@ EXCEPT !.branches = @ \cup {ap[p].branch_name.s}] ELSE @]
    /\ IF v.t # "raise" /\ ~Truthy(v)
       THEN /\ GitPrinting(p, "git checkout -b " \o ap[p].branch_name.s, raw, FALSE, v,
                           {"Error: Failed to create branch"})
            /\ ap' = [ap EXCEPT ![p].ret = PyBool(FALSE)]
            /\ Continue(p, v, "returned")
       ELSE /\ Git(p, "git checkout -b " \o ap[p].branch_name.s, raw, FALSE, v)
            /\ UNCHANGED ap
            /\ Continue(p, v, "tempfile")

\* the failure of git checkout -b reported but not returned
CheckoutBWithNoReturn(p, raw, v) ==
    /\ repo' = [repo EXCEPT ![Here(p)] =
                   IF raw = "ok" THEN CheckedOut(@, ap[p].branch_name.s) ELSE @]
    /\ GitPrinting(p, "git checkout -b " \o ap[p].branch_name.s, raw, FALSE, v,
                   IF v.t # "raise" /\ ~Truthy(v) THEN {"Error: Failed to create branch"} ELSE {})
    /\ UNCHANGED ap
    /\ Continue(p, v, "tempfile")

CheckoutBWith(p, raw, v) ==
    /\ repo' = [repo EXCEPT ![Here(p)] =
                   IF raw = "ok" THEN CheckedOut(@, ap[p].branch_name.s) ELSE @]
    /\ IF v.t # "raise" /\ ~Truthy(v)
       THEN /\ GitPrinting(p, "git checkout -b " \o ap[p].branch_name.s, raw, FALSE, v,
                           {"Error: Failed to create branch"})
            /\ ap' = [ap EXCEPT ![p].ret = PyBool(FALSE)]
            /\ Continue(p, v, "returned")
       ELSE /\ Git(p, "git checkout -b " \o ap[p].branch_name.s, raw, FALSE, v)
            /\ UNCHANGED ap
            /\ Continue(p, v, "tempfile")

CheckoutB(p) ==
    /\ pc[p] = "checkout_b"
    /\ \E raw \in RawOutcomes :
          /\ CanCreate(repo[Here(p)], ap[p].branch_name.s, raw)
          /\ CheckoutBWith(p, raw, run_command(raw, "", FALSE))
    /\ UNCHANGED <<main, analysis, tmp, runs, ensured>>

\* tempfile.NamedTemporaryFile(suffix=".patch", delete=False): a fresh name
TempName(p, pid) == "/tmp/tmp-" \o pid \o "-" \o p \o ".patch"

WriteTempFile(p) ==
    /\ pc[p] = "tempfile"
    /\ tmp' = tmp \cup {TempName(p, main[p].pid)}
    /\ ap' = [ap EXCEPT ![p].patch_file = PyStr(TempName(p, main[p].pid))]
    /\ Logged(p, "write patch file", TRUE, repo[Here(p)].head)
    /\ Printed(p, {"Applying patch..."})
    /\ pc' = [pc EXCEPT ![p] = "apply_3way"]
    /\ UNCHANGED <<main, code, analysis, repo, runs, ensured>>

\* the three strategies in the order apply_patch tries them
Strategies == <<"git apply --3way", "git apply", "git apply --whitespace=fix">>

\* one success message for all three strategies
SuccessMessageSame(cmd) == "Patch applied successfully"

\* what apply_patch prints when a strategy succeeded
SuccessMessage(cmd) ==
    CASE cmd = "git apply --3way" -> "Patch applied successfully with 3-way merge"
      [] cmd = "git apply" -> "Patch applied successfully"
      [] cmd = "git apply --whitespace=fix" -> "Patch applied successfully with whitespace fixes"

\* what it prints when a strategy failed, before the next step
FailureMessage(cmd) ==
    CASE cmd = "git apply --3way" -> "3-way merge failed, trying standard git apply..."
      [] cmd = "git apply" -> "Standard apply failed, trying with whitespace fixes..."
      [] cmd = "git apply --whitespace=fix" -> "All apply methods failed. Checking for conflicts..."

\* a strategy without the return after its success: the next one is tried
StrategyWithNoStop(p, cmd, raw, v, next) ==
    /\ repo' = [repo EXCEPT ![Here(p)] = IF raw = "ok" THEN [@ EXCEPT !.tracked = TRUE] ELSE @]
    /\ GitPrinting(p, cmd, raw, FALSE, v,
                   IF v.t = "raise" THEN {}
                   ELSE IF Truthy(v) THEN {SuccessMessage(cmd)} ELSE {FailureMessage(cmd)})
    /\ ap' = [ap EXCEPT ![p].ret = IF v.t # "raise" /\ Truthy(v) THEN PyBool(TRUE) ELSE @]
    /\ ContinueInTry(p, v, next)

\* one of the three strategies: on success the working tree holds the patch and
\* apply_patch returns True through the finally clause
StrategyWith(p, cmd, raw, v, next) ==
    /\ repo' = [repo EXCEPT ![Here(p)] = IF raw = "ok" THEN [@ EXCEPT !.tracked = TRUE] ELSE @]
    /\ IF v.t # "raise" /\ Truthy(v)
       THEN /\ GitPrinting(p, cmd, raw, FALSE, v, {SuccessMessage(cmd)})
            /\ ap' = [ap EXCEPT ![p].ret = PyBool(TRUE)]
            /\ ContinueInTry(p, v, "finally")
       ELSE /\ GitPrinting(p, cmd, raw, FALSE, v, IF v.t = "raise" THEN {} ELSE {FailureMessage(cmd)})
            /\ UNCHANGED ap
            /\ ContinueInTry(p, v, next)

ApplyThreeWay(p) ==
    /\ pc[p] = "apply_3way"
    /\ \E raw \in RawOutcomes :
          StrategyWith(p, Strategies[1], raw, run_command(raw, "", FALSE), "apply_plain")
    /\ UNCHANGED <<main, analysis, tmp, runs, ensured>>

ApplyPlain(p) ==
    /\ pc[p] = "apply_plain"
    /\ \E raw \in RawOutcomes :
          StrategyWith(p, Strategies[2], raw, run_command(raw, "", FALSE), "apply_ws")
    /\ UNCHANGED <<main, analysis, tmp, runs, ensured>>

ApplyWhitespaceFix(p) ==
    /\ pc[p] = "apply_ws"
    /\ \E raw \in RawOutcomes :
          StrategyWith(p, Strategies[3], raw, run_command(raw, "", FALSE), "apply_check")
    /\ UNCHANGED <<main, analysis, tmp, runs, ensured>>

\* git apply --check prints nothing on standard output; what it finds goes to
\* standard error, which run_command prints after "Command failed"
ApplyCheckWith(p, raw, v) ==
    /\ GitPrinting(p, "git apply --check", raw, TRUE, v,
                   IF v.t # "raise" /\ Truthy(v) THEN {"Conflict details"} ELSE {})
    /\ ap' = [ap EXCEPT ![p].conflict_output = v]
    /\ ContinueInTry(p, v, "apply_stat")

\* git apply in place of git apply --check: the diagnostic changes the tree
ApplyCheckApplying(p) ==
    /\ pc[p] = "apply_check"
    /\ \E raw \in RawOutcomes :
          /\ ApplyCheckWith(p, raw, run_command(raw, "", TRUE))
          /\ repo' = [repo EXCEPT ![Here(p)] =
                         IF raw = "ok" THEN [@ EXCEPT !.tracked = TRUE] ELSE @]
    /\ UNCHANGED <<main, analysis, tmp, runs, ensured>>

ApplyCheck(p) ==
    /\ pc[p] = "apply_check"
    /\ \E raw \in RawOutcomes : ApplyCheckWith(p, raw, run_command(raw, "", TRUE))
    /\ UNCHANGED <<main, analysis, repo, tmp, runs, ensured>>

ApplyStatWith(p, raw, v) ==
    /\ GitPrinting(p, "git apply --stat", raw, FALSE, v,
                   {"Attempting to show what would be applied..."}
                   \cup (IF v.t = "raise" THEN {} ELSE {"Error: Failed to apply patch cleanly"}))
    /\ ap' = [ap EXCEPT ![p].ret = IF v.t = "raise" THEN @ ELSE PyBool(FALSE)]
    /\ ContinueInTry(p, v, "finally")

ApplyStat(p) ==
    /\ pc[p] = "apply_stat"
    /\ \E raw \in RawOutcomes : ApplyStatWith(p, raw, run_command(raw, "", FALSE))
    /\ UNCHANGED <<main, analysis, repo, tmp, runs, ensured>>

\* os.unlink(patch_file) after the try block instead of in its finally clause
FinallyOnReturnOnly(p) ==
    /\ pc[p] \in {"finally", "finally_raise"}
    /\ tmp' = IF pc[p] = "finally_raise" THEN tmp ELSE tmp \ {ap[p].patch_file.s}
    /\ Logged(p, "unlink patch file", pc[p] = "finally", repo[Here(p)].head)
    /\ IF pc[p] = "finally_raise"
       THEN /\ pc' = [pc EXCEPT ![p] = "crashed"]
            /\ code' = [code EXCEPT ![p] = "1"]
       ELSE /\ pc' = [pc EXCEPT ![p] = "returned"]
            /\ UNCHANGED code
    /\ UNCHANGED <<main, ap, out, analysis, repo, runs, ensured>>

\* finally: os.unlink(patch_file); then the return, or the exception goes on
Finally(p) ==
    /\ pc[p] \in {"finally", "finally_raise"}
    /\ tmp' = tmp \ {ap[p].patch_file.s}
    /\ Logged(p, "unlink patch file", TRUE, repo[Here(p)].head)
    /\ IF pc[p] = "finally_raise"
       THEN /\ pc' = [pc EXCEPT ![p] = "crashed"]
            /\ code' = [code EXCEPT ![p] = "1"]
       ELSE /\ pc' = [pc EXCEPT ![p] = "returned"]
            /\ UNCHANGED code
    /\ UNCHANGED <<main, ap, out, analysis, repo, runs, ensured>>

(***************************************************************************)
(* main() after apply_patch, and the analysis.                             *)
(***************************************************************************)
\* patch_applied = apply_patch(...); a warning when it is False
Returned(p) ==
    /\ pc[p] = "returned"
    /\ main' = [main EXCEPT ![p].patch_applied = ap[p].ret]
    /\ Printed(p, IF Truthy(ap[p].ret) THEN {}
                  ELSE {"Warning: Failed to apply patch, but continuing with analysis using original patch content..."})
    /\ pc' = [pc EXCEPT ![p] = "analyze"]
    /\ UNCHANGED <<ap, log, code, analysis, repo, tmp, runs, ensured>>

\* analysis always told to read the changes from git
AnalysisPatchNone(patch_applied, no_apply, patch_content) == PyNone

\* the test of --no-apply left out: patch_applied alone decides
AnalysisPatchIgnoringNoApply(patch_applied, no_apply, patch_content) ==
    IF Truthy(patch_applied) THEN PyNone ELSE patch_content

\* the patch_content argument of analyze_with_claude: None after a successful
\* apply, the downloaded text otherwise
AnalysisPatch(patch_applied, no_apply, patch_content) ==
    IF Truthy(patch_applied) /\ ~no_apply THEN PyNone ELSE patch_content

\* analyze_with_claude(repo_path, ..., patch_content, ...); it leaves its prompt
\* file in the repository, main() returns
Analyze(p) ==
    /\ pc[p] = "analyze"
    /\ analysis' = [analysis EXCEPT ![p] =
            [repo_path |-> main[p].repo_path,
             patch_content |-> AnalysisPatch(main[p].patch_applied, main[p].no_apply,
                                             main[p].patch_content)]]
    /\ Logged(p, "claude --print", TRUE, repo[Here(p)].head)
    /\ Printed(p, {"Analyzing patch with Claude Code"})
    /\ repo' = [repo EXCEPT ![Here(p)].untracked = TRUE]
    /\ Exit(p, "0")
    /\ UNCHANGED <<main, ap, tmp, runs, ensured>>

Next ==
    \E p \in Procs :
        \/ Start(p)
        \/ Resolve(p)
        \/ Download(p)
        \/ FetchComments(p)
        \/ AnalyzePatchOnly(p)
        \/ EnsureRepository(p)
        \/ Status(p)
        \/ Stash(p)
        \/ Reset(p)
        \/ Clean(p)
        \/ SymbolicRef(p)
        \/ BranchList(p)
        \/ CheckoutMain(p)
        \/ Pull(p)
        \/ CheckoutB(p)
        \/ WriteTempFile(p)
        \/ ApplyThreeWay(p)
        \/ ApplyPlain(p)
        \/ ApplyWhitespaceFix(p)
        \/ ApplyCheck(p)
        \/ ApplyStat(p)
        \/ Finally(p)
        \/ Returned(p)
        \/ Analyze(p)

Spec == Init /\ [][Next]_vars

(***************************************************************************)
(* Invocations with --no-apply, one after another on the same base         *)
(* directory: the provisioner is called once by each.                      *)
(***************************************************************************)
StartNoApply(p) ==
    /\ p = FirstSlot
    /\ runs < MaxRuns
    /\ \E url \in URLs, no_checkout \in BOOLEAN, pid \in Pids :
          Invoke(p, url, no_checkout, TRUE, pid)

NextRuns ==
    \E p \in Procs :
        \/ StartNoApply(p)
        \/ Resolve(p)
        \/ Download(p)
        \/ FetchComments(p)
        \/ AnalyzePatchOnly(p)
        \/ EnsureRepository(p)
        \/ Analyze(p)

SpecRuns == Init /\ [][NextRuns]_vars

(***************************************************************************)
(* The resolver and the downloaders on more URLs: an invocation is started *)
(* on any of them and runs up to the download.                             *)
(***************************************************************************)
ResolverURLs ==
    URLs \cup
    {"https://github.com/acme/widget/pull/42?diff=split#discussion_r1",
     "https://github.com/acme/widget/pull/42/files",
     "https://github.com/acme/widget/commit/abc123",
     "https://github.com/rust-lang/rust/pull/7",
     "https://github.com/acme/widget",
     "https://github.com/acme/",
     "https://github.com",
     "https://github.com//widget/pull/1",
     "https://github.com.evil.example/acme/widget/pull/42",
     "http://github.com/acme/widget/pull/42",
     "github.com/acme/widget/pull/42",
     "https://github.com@phabricator.services.mozilla.com/D123",
     "https://phabricator.services.mozilla.com/D123?id=5#inline",
     "https://phabricator.services.mozilla.com/D999999",
     "https://phabricator.services.mozilla.com/",
     "https://phabricator.services.mozilla.com/differential/revision/D5/",
     "https://phabricator.example.org/D123",
     "https://bugzilla.mozilla.org/D123"}

StartResolver(p) ==
    /\ p = FirstSlot
    /\ runs = 0
    /\ \E url \in ResolverURLs, pid \in Pids : Invoke(p, url, FALSE, FALSE, pid)

NextResolver ==
    \E p \in Procs :
        \/ StartResolver(p)
        \/ Resolve(p)
        \/ Download(p)

SpecResolver == Init /\ [][NextResolver]_vars

(***************************************************************************)
(* The single invocation, with the interruption of a running command:      *)
(* KeyboardInterrupt is no Exception, so the except clause of run_command  *)
(* does not catch it and it leaves run_command.                            *)
(***************************************************************************)
\* where an invocation waits for a command run by run_command
AtCommand ==
    {"ensure", "status", "stash", "reset", "clean", "symref", "branch_r", "checkout", "pull",
     "checkout_b", "apply_3way", "apply_plain", "apply_ws", "apply_check", "apply_stat"}

\* the commands that run inside the try block of apply_patch
InTryBlock == {"apply_3way", "apply_plain", "apply_ws", "apply_check", "apply_stat"}

\* the command is interrupted before it has done anything: inside the try block
\* the finally clause runs, then the traceback ends the process
Interrupt(p) ==
    /\ pc[p] \in AtCommand
    /\ pc' = [pc EXCEPT ![p] = IF pc[p] \in InTryBlock THEN "finally_raise" ELSE "crashed"]
    /\ code' = [code EXCEPT ![p] = IF pc[p] \in InTryBlock THEN @ ELSE "1"]
    /\ Printed(p, {"KeyboardInterrupt"})
    /\ UNCHANGED <<main, ap, log, analysis, repo, tmp, runs, ensured>>

NextInterrupt == Next \/ \E p \in Procs : Interrupt(p)

SpecInterrupt == Init /\ [][NextInterrupt]_vars

(***************************************************************************)
(* The single invocation, with a command that never exits: subprocess.run  *)
(* is called without a timeout, so run_command waits for it without end.   *)
(***************************************************************************)
Hang(p) ==
    /\ pc[p] \in AtCommand
    /\ pc' = [pc EXCEPT ![p] = "hung"]
    /\ UNCHANGED <<main, ap, log, out, code, analysis, repo, tmp, runs, ensured>>

NextHang == Next \/ \E p \in Procs : Hang(p)

\* a process that can take a step takes one
SpecHang == Init /\ [][NextHang]_vars /\ WF_vars(NextHang)

(***************************************************************************)
(* Two invocations at the same time on the same local clone: two processes *)
(* that are alive together have different process ids.  The commands of    *)
(* both succeed, so the steps are those of the path without failures.      *)
(***************************************************************************)
\* URLs of patches of one repository
ConcURLs == {"https://github.com/acme/widget/pull/42"}

StartConc(p) ==
    /\ pc[p] = "idle"
    /\ \E url \in ConcURLs, pid \in Pids \ {main[q].pid : q \in Procs \ {p}} :
          Invoke(p, url, FALSE, FALSE, pid)

\* the failed commands and requests of an invocation
Faults(l) == {i \in 1..Len(l) : ~l[i].ok}

\* the concurrent specification looks at the interleavings of two invocations
\* whose commands and requests all succeed
NoFaults(l) == \A p \in Procs : Faults(l[p]) = {}

NextConc ==
    \E p \in Procs :
      /\
        \/ StartConc(p)
        \/ Resolve(p)
        \/ Download(p)
        \/ FetchComments(p)
        \/ EnsureRepository(p)
        \/ Status(p)
        \/ Stash(p)
        \/ SymbolicRef(p)
        \/ CheckoutMain(p)
        \/ Pull(p)
        \/ CheckoutB(p)
        \/ WriteTempFile(p)
        \/ ApplyThreeWay(p)
        \/ Finally(p)
        \/ Returned(p)
        \/ Analyze(p)
      /\ NoFaults(log')

SpecConc == Init /\ [][NextConc]_vars

(***************************************************************************)
(* Successive invocations on one clone: each starts when the one before    *)
(* has ended and runs the whole pipeline.  The first is a run in which     *)
(* every command succeeds; in the later ones every command is free to      *)
(* fail.                                                                   *)
(***************************************************************************)
StartSeq(p) ==
    /\ p = FirstSlot
    /\ runs < MaxRuns
    /\ \E pid \in Pids : Invoke(p, "https://github.com/acme/widget/pull/42", FALSE, FALSE, pid)

NextSeq ==
    \E p \in Procs :
        /\
          \/ StartSeq(p) \/ Resolve(p) \/ Download(p) \/ FetchComments(p) \/ EnsureRepository(p)
          \/ Status(p) \/ Stash(p) \/ Reset(p) \/ Clean(p) \/ SymbolicRef(p) \/ BranchList(p)
          \/ CheckoutMain(p) \/ Pull(p) \/ CheckoutB(p) \/ WriteTempFile(p)
          \/ ApplyThreeWay(p) \/ ApplyPlain(p) \/ ApplyWhitespaceFix(p) \/ ApplyCheck(p)
          \/ ApplyStat(p) \/ Finally(p) \/ Returned(p) \/ Analyze(p)
        /\ runs' = 1 => NoFaults(log')

SpecSeq == Init /\ [][NextSeq]_vars

(***************************************************************************)
(* Vocabulary of the properties: what the effects and the messages of an   *)
(* invocation say about it.                                                *)
(***************************************************************************)
IsStrategy(e) == e.op \in {"git apply --3way", "git apply", "git apply --whitespace=fix"}

IsDiagnostic(e) == e.op \in {"git apply --check", "git apply --stat"}

IsApplyCommand(e) == IsStrategy(e) \/ IsDiagnostic(e)

\* the git apply commands of the invocation, in the order they ran
ApplyCommands(p) == SelectSeq(log[p], IsApplyCommand)

HasOp(l, op) == \E i \in 1..Len(l) : l[i].op = op

HasOpWith(l, op, ok) == \E i \in 1..Len(l) : l[i].op = op /\ l[i].ok = ok

\* apply_patch has returned to main()
CallCompleted(p) == pc[p] \in {"returned", "analyze", "exited"} /\ ap[p].ret # PyNone

IsolationSucceeded(p) == HasOpWith(log[p], "git checkout -b patch-review-" \o main[p].pid, TRUE)

BranchCreateFailed(p) == HasOpWith(log[p], "git checkout -b patch-review-" \o main[p].pid, FALSE)

AllStrategiesFailed(p) ==
    /\ HasOpWith(log[p], "git apply --3way", FALSE)
    /\ HasOpWith(log[p], "git apply", FALSE)
    /\ HasOpWith(log[p], "git apply --whitespace=fix", FALSE)

ApplyWarning ==
    "Warning: Failed to apply patch, but continuing with analysis using original patch content..."

(***************************************************************************)
(* C1.  The strategies run in the order three-way, plain, whitespace-fix:  *)
(* the i-th git apply command of a call, when it is a strategy, is the     *)
(* i-th strategy and every command before it is a strategy that failed;    *)
(* no strategy and no diagnostic (--check, --stat) runs after a strategy   *)
(* that succeeded.                                                         *)
(***************************************************************************)
StrategyOrderAt(a, i) ==
    /\ \A j \in 1..(i - 1) : IsStrategy(a[j]) /\ ~a[j].ok
    /\ i <= 3 /\ a[i].op = <<"git apply --3way", "git apply", "git apply --whitespace=fix">>[i]

DiagnosticAt(a, i) == \A j \in 1..(i - 1) : IsStrategy(a[j]) => ~a[j].ok

StrategyOrderIn(a) ==
    \A i \in 1..Len(a) : IF IsStrategy(a[i]) THEN StrategyOrderAt(a, i) ELSE DiagnosticAt(a, i)

C1_StrategyOrder == \A p \in Procs : StrategyOrderIn(ApplyCommands(p))

\* three-way and plain failed, whitespace-fix ran third and succeeded, nothing after it
C1_Witness ==
    \E p \in Procs :
        /\ pc[p] = "exited"
        /\ Len(ApplyCommands(p)) = 3
        /\ ~ApplyCommands(p)[1].ok /\ ~ApplyCommands(p)[2].ok /\ ApplyCommands(p)[3].ok

(***************************************************************************)
(* C2.  In a single invocation, once git checkout -b patch-review-<pid>    *)
(* succeeded the repository stays checked out on patch-review-<pid>, which *)
(* is not the default branch; every strategy that ran, ran with that       *)
(* branch checked out.                                                     *)
(***************************************************************************)
OnIsolationBranch(p) ==
    /\ repo[Here(p)].head = "patch-review-" \o main[p].pid
    /\ repo[Here(p)].head # ap[p].main_branch.s

StrategiesOnIsolationBranch(p) ==
    \A i \in 1..Len(log[p]) :
        IsStrategy(log[p][i]) => log[p][i].head = "patch-review-" \o main[p].pid

C2_IsolationBranch ==
    \A p \in Procs :
        /\ IsolationSucceeded(p) => OnIsolationBranch(p)
        /\ StrategiesOnIsolationBranch(p)

\* a run that ended after isolation succeeded and a strategy applied the patch
C2_Witness ==
    \E p \in Procs :
        /\ pc[p] = "exited"
        /\ IsolationSucceeded(p)
        /\ HasOpWith(log[p], "git apply --3way", TRUE)

(***************************************************************************)
(* C3.  When git checkout -b patch-review-<pid> failed, apply_patch        *)
(* returns False, has written no patch temporary file and has run none of  *)
(* the three strategies and neither diagnostic.                            *)
(***************************************************************************)
NothingApplied(p) ==
    /\ ap[p].patch_file = PyNone
    /\ tmp = {}
    /\ ~HasOp(log[p], "write patch file")
    /\ ApplyCommands(p) = <<>>

C3_BranchFailureStopsApply ==
    \A p \in Procs :
        BranchCreateFailed(p) =>
            /\ ap[p].ret = PyBool(FALSE)
            /\ pc[p] \in {"returned", "analyze", "exited"}
            /\ NothingApplied(p)

\* apply_patch has just returned to main() after the failed git checkout -b
C3_Witness == \E p \in Procs : BranchCreateFailed(p) /\ pc[p] = "returned"

(***************************************************************************)
(* C4.  When the creation of the isolation branch failed, the run prints   *)
(* the cause, ends with a non-zero status and starts no analysis.          *)
(***************************************************************************)
C4_BranchCreateFailedIsFatal ==
    \A p \in Procs :
        BranchCreateFailed(p) /\ pc[p] = "exited" =>
            /\ "Error: Failed to create branch" \in out[p]
            /\ code[p] = "1"
            /\ analysis[p] = PyNone

(***************************************************************************)
(* C5.  When all three strategies failed, no exception leaves apply_patch, *)
(* and once it has returned: it returned False, no success message was     *)
(* printed, and the diagnostics (--check, --stat, the failure report) were *)
(* produced.                                                               *)
(***************************************************************************)
NoStrategyReported(p) ==
    out[p] \cap {"Patch applied successfully with 3-way merge",
                 "Patch applied successfully",
                 "Patch applied successfully with whitespace fixes"} = {}

DiagnosticsProduced(p) ==
    /\ HasOp(log[p], "git apply --check")
    /\ HasOp(log[p], "git apply --stat")
    /\ {"All apply methods failed. Checking for conflicts...",
        "Attempting to show what would be applied...",
        "Error: Failed to apply patch cleanly"} \subseteq out[p]

C5_TotalFailureOutcome ==
    \A p \in Procs :
        AllStrategiesFailed(p) =>
            /\ pc[p] \notin {"crashed", "finally_raise"}
            /\ CallCompleted(p) =>
                  /\ ap[p].ret = PyBool(FALSE)
                  /\ NoStrategyReported(p)
                  /\ DiagnosticsProduced(p)

\* apply_patch has just returned after the three strategies failed
C5_Witness == \E p \in Procs : AllStrategiesFailed(p) /\ pc[p] = "returned"

(***************************************************************************)
(* C6.  What apply_patch reports identifies the first strategy that        *)
(* succeeded: after three-way failed and plain succeeded it reports plain  *)
(* and not three-way; after only whitespace-fix succeeded it returns True  *)
(* and reports whitespace-fix; it returns True exactly when one succeeded. *)
(***************************************************************************)
\* the strategies named by the success messages printed
ReportedStrategies(o) ==
    {s \in {"ThreeWay", "Plain", "WhitespaceFix"} :
        \/ s = "ThreeWay" /\ "Patch applied successfully with 3-way merge" \in o
        \/ s = "Plain" /\ "Patch applied successfully" \in o
        \/ s = "WhitespaceFix" /\ "Patch applied successfully with whitespace fixes" \in o}

\* the first strategy that succeeded, by the commands that ran
FirstSucceeded(l) ==
    IF HasOpWith(l, "git apply --3way", TRUE) THEN {"ThreeWay"}
    ELSE IF HasOpWith(l, "git apply", TRUE) THEN {"Plain"}
    ELSE IF HasOpWith(l, "git apply --whitespace=fix", TRUE) THEN {"WhitespaceFix"}
    ELSE {}

AnalysedOriginalPatch(p) ==
    /\ analysis[p] # PyNone
    /\ main[p].patch_content.t = "str"
    /\ analysis[p].patch_content = main[p].patch_content
    /\ HasOp(log[p], "claude --print")

C7_ApplyFailedNonFatal ==
    \A p \in Procs :
        AllStrategiesFailed(p) =>
            /\ code[p] # "1"
            /\ pc[p] \in {"apply_check", "apply_stat", "finally", "returned", "analyze", "exited"}
            /\ pc[p] \in {"analyze", "exited"} => ApplyWarning \in out[p]
            /\ pc[p] = "exited" => code[p] = "0" /\ AnalysedOriginalPatch(p)

\* a run that ended after the three strategies failed
C7_Witness == \E p \in Procs : AllStrategiesFailed(p) /\ pc[p] = "exited"


(***************************************************************************)
(* C8.  For a URL that get_repo_info_from_url maps to None the run ends    *)
(* at the resolver with status 1 and the cause printed, and it has made    *)
(* no request, written nothing (no directory, no temporary file, no clone) *)
(* and run no git command.                                                 *)
(***************************************************************************)
\* the URLs of the command line that the resolver maps to None
UnresolvedURLs == {url \in URLs : get_repo_info_from_url(url) = PyNone}

ResolvedToNone(p) == pc[p] \notin {"idle", "resolve"} /\ main[p].url \in UnresolvedURLs

NoEffects(p) == log[p] = <<>> /\ tmp = {} /\ ensured = <<>> /\ analysis[p] = PyNone

C8_UnresolvedUrlHalts ==
    \A p \in Procs :
        ResolvedToNone(p) =>
            /\ pc[p] = "exited"
            /\ code[p] = "1"
            /\ "Error: Could not extract repository information from URL" \in out[p]
            /\ NoEffects(p)

\* a run on a URL of a host the resolver does not know has ended
C8_Witness ==
    \E p \in Procs :
        /\ ResolvedToNone(p)
        /\ main[p].url = "https://gitlab.com/acme/widget/pull/42"
        /\ pc[p] = "exited"

(***************************************************************************)
(* C9.  A download that failed (a response that is not 2xx, a network      *)
(* error, a URL no patch URL can be derived from) ends the run with status *)
(* 1 before the provisioner, the isolation and the strategies: the request *)
(* is the only effect of the run, no repository was touched, and the       *)
(* failure printed is the download's, not apply's.                         *)
(***************************************************************************)
IsRequest(e) == StartsWith(e.op, "http get ")

IsNotRequest(e) == ~IsRequest(e)

RequestFailed(p) == \E i \in 1..Len(log[p]) : IsRequest(log[p][i]) /\ ~log[p][i].ok

\* the download step is over and made no request: no patch URL for this URL
NoPatchUrl(p) ==
    /\ pc[p] \notin {"idle", "resolve", "download"}
    /\ main[p].repo_info # PyNone
    /\ SelectSeq(log[p], IsRequest) = <<>>

ReportedAsDownloadFailure(p) ==
    /\ out[p] \cap {"Error downloading patch", "Error: Unsupported URL format"} # {}
    /\ out[p] \cap {ApplyWarning, "Error: Failed to apply patch cleanly",
                    "Error: Failed to create branch"} = {}

C9_DownloadFailureHalts ==
    \A p \in Procs :
        RequestFailed(p) \/ NoPatchUrl(p) =>
            /\ pc[p] = "exited"
            /\ code[p] = "1"
            /\ SelectSeq(log[p], IsNotRequest) = <<>>
            /\ tmp = {} /\ ensured = <<>> /\ analysis[p] = PyNone
            /\ ReportedAsDownloadFailure(p)

\* a run whose request was answered with a status that is not 2xx has ended
C9_Witness ==
    \E p \in Procs :
        /\ pc[p] = "exited"
        /\ HasOpWith(log[p], "http get https://github.com/acme/widget/pull/42.diff", FALSE)
        /\ NoPatchUrl(p) = FALSE

(***************************************************************************)
(* C10.  Two successive calls of ensure_repository with the same locator   *)
(* and base directory: as stated, they return the same path                *)
(* <base_dir>/<owner>/<repo> and the second only fetches.                  *)
(***************************************************************************)
SameArguments(c, d) ==
    /\ c.repo_url = d.repo_url /\ c.owner = d.owner /\ c.repo = d.repo
    /\ c.base_dir = d.base_dir

SecondOnlyFetches(c, d) ==
    /\ d.op = "fetch"
    /\ d.ret = c.ret
    /\ d.ret = PyStr(RepoPathOf(d.base_dir, d.owner, d.repo))

C10_Idempotent ==
    \A i \in 1..(Len(ensured) - 1) :
        SameArguments(ensured[i], ensured[i + 1]) =>
            SecondOnlyFetches(ensured[i], ensured[i + 1])

(***************************************************************************)
(* C10, amended.  Two successive calls of ensure_repository with the same  *)
(* locator and base directory, the first of which returned the repository  *)
(* path: the second returns the same path <base_dir>/<owner>/<repo> and    *)
(* only fetches, whatever the result of the fetch of either call.          *)
(***************************************************************************)
C10_IdempotentOnceProvisioned ==
    \A i \in 1..(Len(ensured) - 1) :
        SameArguments(ensured[i], ensured[i + 1]) /\ ensured[i].ret # PyNone =>
            SecondOnlyFetches(ensured[i], ensured[i + 1])

\* the first call cloned, the second call's fetch failed and the path came back
C10_Witness ==
    /\ Len(ensured) = 2
    /\ SameArguments(ensured[1], ensured[2])
    /\ ensured[1].op = "clone" /\ ensured[1].ok
    /\ ensured[2].op = "fetch" /\ ~ensured[2].ok
    /\ ensured[2].ret = PyStr("/home/user/repos/acme/widget")


(***************************************************************************)
(* C11.  When the repository path holds a clone and git fetch origin       *)
(* fails, ensure_repository prints the warning and returns the path; the   *)
(* run is not ended by it: without --no-apply it goes on to the isolation  *)
(* (the status query first) and the apply, and it never ends with a        *)
(* failure status.                                                         *)
(***************************************************************************)
FetchFailed(p) == HasOpWith(log[p], "git fetch origin", FALSE)

PathReturned(p) ==
    /\ main[p].repo_path = PyStr(RepoPathOfInfo(BaseDir, main[p].repo_info))
    /\ ensured[Len(ensured)].op = "fetch"
    /\ ensured[Len(ensured)].ret = main[p].repo_path

IsolationEntered(p) == pc[p] = "status" \/ HasOp(log[p], "git status --porcelain")

C11_FetchFailureNonFatal ==
    \A p \in Procs :
        FetchFailed(p) =>
            /\ "Warning: Failed to update repository" \in out[p]
            /\ PathReturned(p)
            /\ code[p] # "1"
            /\ IF main[p].no_apply THEN pc[p] \in {"analyze", "exited"} ELSE IsolationEntered(p)

\* after a failed fetch a strategy has applied the patch and the run has ended
C11_Witness ==
    \E p \in Procs :
        /\ FetchFailed(p)
        /\ HasOpWith(log[p], "git apply", TRUE)
        /\ pc[p] = "exited"


(***************************************************************************)
(* C12.  When the path is missing or has no .git and git clone fails,      *)
(* ensure_repository returns None and the run ends with status 1: it has   *)
(* run nothing but the request and the provisioner's own commands (no      *)
(* isolation, no apply, no analysis).  No step of the program removes a    *)
(* directory: what a failed clone left at the path stays there.            *)
(***************************************************************************)
CloneFailed(p) == HasOpWith(log[p], "git clone", FALSE)

IsProvisioning(e) == IsRequest(e) \/ e.op \in {"mkdir -p parent", "git clone"}

EndedAtProvisioner(p) ==
    /\ pc[p] = "exited" /\ code[p] = "1"
    /\ main[p].repo_path = PyNone
    /\ ensured[Len(ensured)].op = "clone" /\ ensured[Len(ensured)].ret = PyNone
    /\ {"Error: Failed to clone repository",
        "Error: Failed to ensure repository is available"} \subseteq out[p]
    /\ SelectSeq(log[p], IsProvisioning) = log[p]
    /\ analysis[p] = PyNone /\ tmp = {}

NothingRemoved ==
    \A path \in DOMAIN repo :
        /\ repo[path].fs # "absent" => repo'[path].fs # "absent"
        /\ repo[path].fs = "git" => repo'[path].fs = "git"

C12_CloneFailureFatal ==
    /\ [](\A p \in Procs : CloneFailed(p) => EndedAtProvisioner(p))
    /\ [][NothingRemoved]_vars

\* a run ended by a failed clone; a directory without .git is at the path
C12_Witness ==
    \E p \in Procs :
        /\ CloneFailed(p)
        /\ pc[p] = "exited"
        /\ repo[RepoPathOfInfo(BaseDir, main[p].repo_info)].fs = "nogit"


(***************************************************************************)
(* C13.  A call of apply_patch that wrote the patch temporary file has     *)
(* removed it when the call is over, however it ended: a strategy          *)
(* succeeded, all failed, or an exception left a strategy or a diagnostic. *)
(***************************************************************************)
\* apply_patch is over: it returned, or an exception left it
CallOver(p) == pc[p] \in {"returned", "analyze", "exited", "crashed"}

TempFileWritten(p) == HasOp(log[p], "write patch file")

C13_TempFileRemoved ==
    \A p \in Procs :
        CallOver(p) /\ TempFileWritten(p) =>
            /\ ap[p].patch_file.s \notin tmp
            /\ HasOpWith(log[p], "unlink patch file", TRUE)

\* an interruption left the second strategy; the process has ended with the traceback
C13_Witness ==
    \E p \in Procs :
        /\ pc[p] = "crashed"
        /\ TempFileWritten(p)
        /\ HasOpWith(log[p], "git apply --3way", FALSE)
        /\ ~HasOp(log[p], "git apply")


(***************************************************************************)
(* C14.  The two diagnostic commands, run after the three strategies       *)
(* failed, change nothing in the repository (working tree, index, branch   *)
(* checked out); --stat is run whatever --check gave, and after it the     *)
(* failure report is printed and False is what apply_patch returns.        *)
(***************************************************************************)
DiagnosticStep(p) == pc[p] \in {"apply_check", "apply_stat"} /\ pc'[p] # pc[p]

DiagnosticsYielded(p) ==
    IF pc[p] = "apply_check"
    THEN /\ pc'[p] = "apply_stat"
         /\ "All apply methods failed. Checking for conflicts..." \in out[p]
    ELSE /\ pc'[p] = "finally"
         /\ ap'[p].ret = PyBool(FALSE)
         /\ {"Attempting to show what would be applied...",
             "Error: Failed to apply patch cleanly"} \subseteq out'[p]

C14_DiagnosticsReadOnly ==
    [][\A p \in Procs : DiagnosticStep(p) =>
           /\ AllStrategiesFailed(p)
           /\ repo' = repo
           /\ DiagnosticsYielded(p)]_vars

\* both diagnostics have run after the three failures; the finally clause is next
C14_Witness ==
    \E p \in Procs :
        /\ pc[p] = "finally"
        /\ AllStrategiesFailed(p)
        /\ HasOp(log[p], "git apply --check") /\ HasOp(log[p], "git apply --stat")


(***************************************************************************)
(* C15.  Every git command is bounded by a timeout, so a run whose command *)
(* hangs still ends: in a state where an invocation waits for a command    *)
(* that never exits, a step (the timeout) is possible.                     *)
(***************************************************************************)
C15_HungCommandTimesOut ==
    \A p \in Procs : pc[p] = "hung" => ENABLED <<NextHang>>_vars


(***************************************************************************)
(* C16.  Two invocations at the same time on one clone, with different     *)
(* process ids, have different isolation-branch names; an invocation about *)
(* to create its branch never finds the name taken by a branch the other   *)
(* created; and no step of an invocation adds or removes the other's       *)
(* branch.                                                                 *)
(***************************************************************************)
NamesDistinct(p, q) ==
    ap[p].branch_name # PyNone /\ ap[q].branch_name # PyNone =>
        ap[p].branch_name # ap[q].branch_name

NotTakenBy(p, q) ==
    pc[p] = "checkout_b" /\ ap[p].branch_name.s \in repo[Here(p)].branches =>
        ~HasOpWith(log[q], "git checkout -b " \o ap[p].branch_name.s, TRUE)

\* a step of q leaves the branch of p as it is, in every repository
LeavesBranchOf(q, p) ==
    pc'[q] # pc[q] /\ ap[p].branch_name # PyNone =>
        \A path \in DOMAIN repo :
            (ap[p].branch_name.s \in repo'[path].branches)
                = (ap[p].branch_name.s \in repo[path].branches)

C16_DistinctIsolationBranches ==
    /\ [](\A p \in Procs : \A q \in Procs \ {p} : NamesDistinct(p, q) /\ NotTakenBy(p, q))
    /\ [][\A p \in Procs : \A q \in Procs \ {p} : LeavesBranchOf(q, p)]_vars

\* both invocations have created their branches in the one clone
C16_Witness ==
    /\ IsolationSucceeded("p1") /\ IsolationSucceeded("p2")
    /\ Here("p1") = Here("p2")
    /\ {"patch-review-101", "patch-review-202"} \subseteq repo[Here("p1")].branches


(***************************************************************************)
(* C17.  For a GitHub pull-request or commit URL (https://github.com/,     *)
(* then owner, repo, pull or commit, a number or a hexadecimal id) the     *)
(* resolver returns <<https://github.com/owner/repo.git, owner, repo>>     *)
(* with the first two segments of the path, the same for the URL without   *)
(* its query string and fragment; the request of a pull-request URL goes   *)
(* to https://github.com/owner/repo/pull/n.diff.                           *)
(***************************************************************************)
\* the URL up to its query string or fragment
PlainUrl(url) == Slice(url, 1, FindAny(url, "?#", 1) - 1)

\* the segments of the path of a URL that starts with https://github.com/
GithubSegments(url) == SplitSlash(From(PlainUrl(url), Len("https://github.com/") + 1))

IsPatchPath(segs, kind, class) ==
    /\ Len(segs) >= 4
    /\ segs[1] # "" /\ segs[2] # ""
    /\ segs[3] = kind
    /\ SpanOf(segs[4], class) >= 1

IsGithubPull(url) ==
    StartsWith(url, "https://github.com/") /\ IsPatchPath(GithubSegments(url), "pull", Digits)

IsGithubCommit(url) ==
    StartsWith(url, "https://github.com/") /\ IsPatchPath(GithubSegments(url), "commit", HexLower)

LocatorOf(segs) == <<"https://github.com/" \o segs[1] \o "/" \o segs[2] \o ".git", segs[1], segs[2]>>

PullEndpointOf(segs) ==
    "https://github.com/" \o segs[1] \o "/" \o segs[2] \o "/pull/"
        \o Slice(segs[4], 1, SpanOf(segs[4], Digits)) \o ".diff"

Resolved(p) == pc[p] \notin {"idle", "resolve"}

Requested(p) == pc[p] \notin {"idle", "resolve", "download"}

C17_GithubLocator ==
    \A p \in Procs :
        /\ Resolved(p) /\ (IsGithubPull(main[p].url) \/ IsGithubCommit(main[p].url)) =>
              /\ LocatorOf(GithubSegments(main[p].url)) = main[p].repo_info
              /\ LocatorOf(GithubSegments(main[p].url))
                     = get_repo_info_from_url(PlainUrl(main[p].url))
        /\ Requested(p) /\ IsGithubPull(main[p].url) =>
              /\ Len(log[p]) = 1
              /\ log[p][1].op = "http get " \o PullEndpointOf(GithubSegments(main[p].url))

\* a pull-request URL with a query string and a fragment: resolved and requested
C17_Witness ==
    \E p \in Procs :
        /\ main[p].url = "https://github.com/acme/widget/pull/42?diff=split#discussion_r1"
        /\ <<"https://github.com/acme/widget.git", "acme", "widget">> = main[p].repo_info
        /\ HasOp(log[p], "http get https://github.com/acme/widget/pull/42.diff")


(***************************************************************************)
(* C18.  The resolver returns a locator only for a URL whose host is       *)
(* github.com with at least two path segments, owner and repo not empty,   *)
(* or a Phabricator host with the mozilla marker; every other URL gives    *)
(* None.                                                                   *)
(***************************************************************************)
\* the host of a network location: what follows the user information
HostOfNetloc(netloc) ==
    IF Contains(netloc, "@") THEN From(netloc, FindAny(netloc, "@", 1) + 1) ELSE netloc

HasOwnerAndRepo(segs) == Len(segs) >= 2 /\ segs[1] # "" /\ segs[2] # ""

IsGithubRepoUrl(parsed_url) ==
    /\ HostOfNetloc(parsed_url.netloc) = "github.com"
    /\ HasOwnerAndRepo(SplitSlash(StripSlash(parsed_url.path)))

IsMozillaPhabricatorHost(host) == Contains(host, "phabricator") /\ Contains(host, "mozilla")

IsMozillaPhabricatorUrl(parsed_url) == IsMozillaPhabricatorHost(HostOfNetloc(parsed_url.netloc))

IsKnownUrl(parsed_url) == IsGithubRepoUrl(parsed_url) \/ IsMozillaPhabricatorUrl(parsed_url)

C18_OnlyKnownHostsResolve ==
    \A p \in Procs :
        Resolved(p) /\ main[p].repo_info # PyNone => IsKnownUrl(urlparse(main[p].url))

(***************************************************************************)
(* C19.  Every URL whose host carries the phabricator and mozilla markers  *)
(* resolves to the one fixed firefox locator, whatever the rest of the     *)
(* URL.                                                                    *)
(***************************************************************************)
C19_PhabricatorFixedLocator ==
    \A p \in Procs :
        Resolved(p) /\ IsMozillaPhabricatorUrl(urlparse(main[p].url)) =>
            FirefoxLocator = main[p].repo_info

(***************************************************************************)
(* C20.  The stash (untracked files included, automated label) is          *)
(* attempted exactly when git status reported a tree that is not clean;    *)
(* the hard reset, then the clean, are attempted exactly when the stash    *)
(* failed; whatever these commands return, isolation goes on to the        *)
(* default branch and to the creation of the isolation branch.             *)
(***************************************************************************)
StatusOp == "git status --porcelain"

StashOp == "git stash push -u -m 'Automated stash before patch review'"

ResetOp == "git reset --hard HEAD"

CleanOp == "git clean -fd"

SymbolicRefOp == "git symbolic-ref refs/remotes/origin/HEAD"

\* the command after the i-th one, or the position of p when the i-th is the last
ThenComes(p, i, op, at) ==
    IF i < Len(log[p]) THEN log[p][i + 1].op = op ELSE pc[p] = at

CameAfter(p, i, op) == i > 1 /\ log[p][i - 1].op = op

ReportedDirty(p, i) == log[p][i].ok /\ Truthy(ap[p].status_output)

C20_StashThenResetThenIsolate ==
    \A p \in Procs :
        /\ \A i \in 1..Len(log[p]) :
              /\ log[p][i].op = StatusOp =>
                    IF ReportedDirty(p, i)
                    THEN ThenComes(p, i, StashOp, "stash")
                    ELSE ThenComes(p, i, SymbolicRefOp, "symref")
              /\ log[p][i].op = StashOp =>
                    /\ CameAfter(p, i, StatusOp) /\ ReportedDirty(p, i - 1)
                    /\ IF log[p][i].ok
                       THEN ThenComes(p, i, SymbolicRefOp, "symref")
                       ELSE ThenComes(p, i, ResetOp, "reset")
              /\ log[p][i].op = ResetOp =>
                    /\ CameAfter(p, i, StashOp) /\ ~log[p][i - 1].ok
                    /\ ThenComes(p, i, CleanOp, "clean")
              /\ log[p][i].op = CleanOp =>
                    /\ CameAfter(p, i, ResetOp)
                    /\ ThenComes(p, i, SymbolicRefOp, "symref")
        /\ CallCompleted(p) /\ HasOp(log[p], StatusOp) =>
              /\ HasOp(log[p], SymbolicRefOp)
              /\ HasOp(log[p], "git checkout -b patch-review-" \o main[p].pid)

C20_Witness ==
    \E p \in Procs :
        /\ HasOpWith(log[p], StashOp, FALSE)
        /\ HasOpWith(log[p], ResetOp, FALSE)
        /\ HasOpWith(log[p], CleanOp, FALSE)
        /\ IsolationSucceeded(p)
        /\ CallCompleted(p)

(***************************************************************************)
(* C21.  The isolation branch is always created from the default branch:   *)
(* whenever git checkout -b patch-review-<pid> runs, the branch checked    *)
(* out at that moment is the default branch that was determined, also      *)
(* after a failed checkout or pull of the default branch.                  *)
(***************************************************************************)
IsBranchCreation(p, e) == e.op = "git checkout -b patch-review-" \o main[p].pid

C21_CreatedFromDefaultBranch ==
    \A p \in Procs :
        \A i \in 1..Len(log[p]) :
            IsBranchCreation(p, log[p][i]) => log[p][i].head = ap[p].main_branch.s

(***************************************************************************)
(* C22.  The default branch is the last path component of the remote's     *)
(* symbolic HEAD reference when that lookup succeeds; otherwise main when  *)
(* the listing of the remote branches contains origin/main; otherwise      *)
(* master when it contains origin/master; otherwise the literal main,      *)
(* also when the listing itself fails.                                     *)
(***************************************************************************)
BranchListOp == "git branch -r"

\* the last components of the references the lookup may print
SymbolicHeadNames == {"main", "master", "v1"}

\* the default branch has been determined and is about to be, or was, checked out
DefaultBranchDetermined(p) ==
    /\ HasOp(log[p], SymbolicRefOp)
    /\ pc[p] \notin {"branch_r", "crashed"}

ListingHas(p, name) ==
    /\ HasOpWith(log[p], BranchListOp, TRUE)
    /\ Contains(ap[p].branches.s, name)

DefaultBranchIs(p, name) ==
    /\ PyStr(name) = ap[p].main_branch
    /\ \A i \in 1..Len(log[p]) :
          StartsWith(log[p][i].op, "git checkout ") /\ ~StartsWith(log[p][i].op, "git checkout -b")
              => log[p][i].op = "git checkout " \o name
    /\ \A i \in 1..Len(log[p]) :
          StartsWith(log[p][i].op, "git pull") => log[p][i].op = "git pull origin " \o name

C22_DefaultBranchPrecedence ==
    \A p \in Procs :
        DefaultBranchDetermined(p) =>
            IF HasOpWith(log[p], SymbolicRefOp, TRUE)
            THEN /\ ~HasOp(log[p], BranchListOp)
                 /\ \E name \in SymbolicHeadNames : DefaultBranchIs(p, name)
            ELSE /\ HasOp(log[p], BranchListOp)
                 /\ IF ListingHas(p, "origin/main") THEN DefaultBranchIs(p, "main")
                    ELSE IF ListingHas(p, "origin/master") THEN DefaultBranchIs(p, "master")
                    ELSE DefaultBranchIs(p, "main")

C22_Witness ==
    \E p \in Procs :
        /\ HasOpWith(log[p], SymbolicRefOp, FALSE)
        /\ PyStr("origin/main\n  origin/master") = ap[p].branches
        /\ HasOp(log[p], "git checkout main")
        /\ HasOp(log[p], "git pull origin main")

(***************************************************************************)
(* C23.  Syncing the default branch is best-effort: a failed checkout of   *)
(* the default branch or a failed pull does not end the run, and the       *)
(* creation of the isolation branch is attempted afterwards in every       *)
(* case, in the order checkout, pull, checkout -b.                         *)
(***************************************************************************)
\* the default branch once it is determined
DefaultName(p) == IF ap[p].main_branch.t = "str" THEN ap[p].main_branch.s ELSE ""

IsCheckoutDefault(p, e) == e.op = "git checkout " \o DefaultName(p)

IsPullDefault(p, e) == e.op = "git pull origin " \o DefaultName(p)

BranchCreationOp(p) == "git checkout -b patch-review-" \o main[p].pid

SyncFailed(p) ==
    \E i \in 1..Len(log[p]) :
        /\ IsCheckoutDefault(p, log[p][i]) \/ IsPullDefault(p, log[p][i])
        /\ ~log[p][i].ok

C23_SyncBestEffort ==
    \A p \in Procs :
        /\ \A i \in 1..Len(log[p]) :
              /\ IsCheckoutDefault(p, log[p][i]) =>
                    ThenComes(p, i, "git pull origin " \o DefaultName(p), "pull")
              /\ IsPullDefault(p, log[p][i]) =>
                    /\ CameAfter(p, i, "git checkout " \o DefaultName(p))
                    /\ ThenComes(p, i, BranchCreationOp(p), "checkout_b")
              /\ IsBranchCreation(p, log[p][i]) =>
                    CameAfter(p, i, "git pull origin " \o DefaultName(p))
        /\ CallCompleted(p) /\ SyncFailed(p) => HasOp(log[p], BranchCreationOp(p))

C23_Witness ==
    \E p \in Procs :
        /\ \E i \in 1..Len(log[p]) : IsCheckoutDefault(p, log[p][i]) /\ ~log[p][i].ok
        /\ \E i \in 1..Len(log[p]) : IsPullDefault(p, log[p][i]) /\ ~log[p][i].ok
        /\ IsolationSucceeded(p)
        /\ CallCompleted(p)

(***************************************************************************)
(* C24.  A GitHub URL that yields a locator but whose path matches neither *)
(* /owner/repo/pull/digits nor /owner/repo/commit/hex-sha is unsupported   *)
(* for the download: the run ends with a non-zero status, and no clone,    *)
(* fetch, branch creation or apply happens.                                *)
(***************************************************************************)
\* the segments of a path after its leading "/"
PathSegments(path) == SplitSlash(From(path, 2))

IsPatchUrlPath(path) ==
    \/ IsPatchPath(PathSegments(path), "pull", Digits)
    \/ IsPatchPath(PathSegments(path), "commit", HexLower)

\* the URLs of the command line on the GitHub host whose path is no patch path
UnsupportedGithubURLs ==
    {url \in URLs :
        /\ HostOfNetloc(urlparse(url).netloc) = "github.com"
        /\ ~IsPatchUrlPath(urlparse(url).path)}

C24_UnsupportedGithubPath ==
    \A p \in Procs :
        /\ Requested(p)
        /\ main[p].url \in UnsupportedGithubURLs
        /\ main[p].repo_info # PyNone
        => /\ pc[p] = "exited"
           /\ code[p] = "1"
           /\ log[p] = <<>>
           /\ "Error downloading patch" \in out[p]
           /\ \A path \in DOMAIN repo : repo[path] \in InitRepoStates

C24_Witness ==
    \E p \in Procs :
        /\ main[p].url = "https://github.com/acme/widget/issues/7"
        /\ <<"https://github.com/acme/widget.git", "acme", "widget">> = main[p].repo_info
        /\ pc[p] = "exited"
        /\ code[p] = "1"

(***************************************************************************)
(* C25.  For a mozilla Phabricator URL the diff identifier is taken from   *)
(* /D<digits> wherever it occurs in the path, and the patch is requested   *)
(* from <base>/D<id>?download=true, also when /D<digits> is not the first  *)
(* segment of the path.                                                    *)
(***************************************************************************)
RECURSIVE DiffIdFrom(_, _)
\* the digits of the first /D<digits> of path at or after position i, "" without one
DiffIdFrom(path, i) ==
    IF i + 1 > Len(path) THEN ""
    ELSE IF Slice(path, i, i + 1) = "/D" /\ SpanOf(From(path, i + 2), Digits) >= 1
         THEN Slice(path, i + 2, i + 1 + SpanOf(From(path, i + 2), Digits))
         ELSE DiffIdFrom(path, i + 1)

DiffIdOf(url) == DiffIdFrom(urlparse(url).path, 1)

\* the https URLs on a mozilla Phabricator host whose path holds /D<digits>
PhabricatorDiffURLs ==
    {url \in ResolverURLs :
        /\ urlparse(url).scheme = "https"
        /\ IsMozillaPhabricatorUrl(urlparse(url))
        /\ DiffIdOf(url) # ""}

PhabricatorEndpointOf(url) ==
    "https://" \o urlparse(url).netloc \o "/D" \o DiffIdOf(url) \o "?download=true"

C25_DiffIdAnywhereInPath ==
    \A p \in Procs :
        /\ Requested(p)
        /\ main[p].url \in PhabricatorDiffURLs
        /\ FirefoxLocator = main[p].repo_info
        => /\ Len(log[p]) >= 1
           /\ log[p][1].op = "http get " \o PhabricatorEndpointOf(main[p].url)

(***************************************************************************)
(* C26.  With two invocations interleaved on one shared clone, every apply *)
(* strategy an invocation runs executes while that invocation's own        *)
(* isolation branch is the checked-out branch: no step of the other        *)
(* invocation makes a patch land on the default branch or on the other     *)
(* invocation's branch.                                                    *)
(***************************************************************************)
C26_StrategiesOnOwnBranch ==
    \A p \in Procs :
        \A i \in 1..Len(log[p]) :
            IsStrategy(log[p][i]) => log[p][i].head = "patch-review-" \o main[p].pid

\* q has switched the shared working tree to the branch: its checkout of the
\* default branch or the creation of its isolation branch succeeded
SwitchedTo(q, branch) ==
    \/ HasOpWith(log[q], "git checkout " \o branch, TRUE)
    \/ HasOpWith(log[q], "git checkout -b " \o branch, TRUE)

\* p created its isolation branch before its i-th command
CreatedOwnBranchBefore(p, i) ==
    \E j \in 1..(i - 1) : IsBranchCreation(p, log[p][j]) /\ log[p][j].ok

\* C26 as amended: every strategy of an invocation runs after that invocation
\* created its own isolation branch, and with that branch checked out unless
\* the other invocation has switched the working tree to the branch that is
\* checked out instead
C26_OwnBranchUnlessSwitched ==
    \A p \in Procs :
        \A i \in 1..Len(log[p]) :
            IsStrategy(log[p][i]) =>
                /\ CreatedOwnBranchBefore(p, i)
                /\ \/ log[p][i].head = "patch-review-" \o main[p].pid
                   \/ \E q \in Procs \ {p} : SwitchedTo(q, log[p][i].head)

\* both invocations created their branches, and the second one's strategy ran
\* on its own branch
C26_Witness ==
    /\ IsolationSucceeded("p1") /\ IsolationSucceeded("p2")
    /\ \E i \in 1..Len(log["p2"]) :
          /\ IsStrategy(log["p2"][i])
          /\ log["p2"][i].head = "patch-review-" \o main["p2"].pid

(***************************************************************************)
(* C27.  With --no-apply, apply_patch is never called: no stash, reset,    *)
(* checkout, pull, branch creation or apply command runs in the            *)
(* repository, only the provisioner's clone or fetch, and the analysis is  *)
(* given the downloaded patch text; the analysis is started without patch  *)
(* text only when the patch was applied successfully.                      *)
(***************************************************************************)
IsProvisionerCommand(e) == e.op \in {"mkdir -p parent", "git clone", "git fetch origin"}

IsAnalysisCommand(e) == e.op = "claude --print"

NoApplyRun(p) == pc[p] # "idle" /\ main[p].no_apply /\ ~main[p].no_checkout

AnalysisStarted(p) == analysis[p] # PyNone

StrategySucceeded(p) == \E i \in 1..Len(log[p]) : IsStrategy(log[p][i]) /\ log[p][i].ok

C27_NoApplySkipsApplyPatch ==
    \A p \in Procs :
        /\ NoApplyRun(p) =>
              /\ \A i \in 1..Len(log[p]) :
                    \/ IsRequest(log[p][i])
                    \/ IsProvisionerCommand(log[p][i])
                    \/ IsAnalysisCommand(log[p][i])
              /\ ap[p] = ApInit
              /\ tmp = {}
              /\ AnalysisStarted(p) =>
                    /\ main[p].patch_content.t = "str"
                    /\ analysis[p].patch_content = main[p].patch_content
        /\ AnalysisStarted(p) /\ analysis[p].patch_content = PyNone =>
              /\ ~main[p].no_apply
              /\ StrategySucceeded(p)
              /\ PyBool(TRUE) = ap[p].ret

C27_Witness ==
    \E p \in Procs :
        /\ NoApplyRun(p)
        /\ HasOpWith(log[p], "git fetch origin", TRUE)
        /\ AnalysisStarted(p)
        /\ analysis[p].patch_content = main[p].patch_content
        /\ pc[p] = "exited" /\ code[p] = "0"

(***************************************************************************)
(* C28.  When the status query of the working tree itself fails, branch    *)
(* isolation takes the tree for clean: neither the stash nor the reset and *)
(* the clean run, and isolation goes on to the checkout of the default     *)
(* branch and to the branch creation with the uncommitted changes still in *)
(* the working tree.                                                       *)
(***************************************************************************)
StatusFailed(p) == HasOpWith(log[p], StatusOp, FALSE)

Isolating(p) == pc[p] \in {"symref", "branch_r", "checkout", "pull", "checkout_b"}

\* the uncommitted changes of the working tree of p are what they were
ChangesKept(p) ==
    /\ repo'[Here(p)].tracked = repo[Here(p)].tracked
    /\ repo'[Here(p)].untracked = repo[Here(p)].untracked

C28_FailedStatusIsClean ==
    /\ [](\A p \in Procs :
            StatusFailed(p) =>
                /\ ~HasOp(log[p], StashOp) /\ ~HasOp(log[p], ResetOp) /\ ~HasOp(log[p], CleanOp)
                /\ \A i \in 1..Len(log[p]) :
                      log[p][i].op = StatusOp => ThenComes(p, i, SymbolicRefOp, "symref")
                /\ CallCompleted(p) =>
                      /\ \E name \in SymbolicHeadNames : HasOp(log[p], "git checkout " \o name)
                      /\ HasOp(log[p], BranchCreationOp(p)))
    /\ [][\A p \in Procs : StatusFailed(p) /\ Isolating(p) => ChangesKept(p)]_vars

C28_Witness ==
    \E p \in Procs :
        /\ StatusFailed(p)
        /\ pc[p] = "tempfile"
        /\ IsolationSucceeded(p)
        /\ repo[Here(p)].tracked

(***************************************************************************)
(* C29.  Isolation branches are never deleted, so across successive runs   *)
(* on one clone a run whose process id is that of an earlier successful    *)
(* run finds patch-review-<pid> present: its branch creation fails, it     *)
(* applies no strategy, and the earlier run's branch stays as it was.      *)
(***************************************************************************)
BranchesKept == \A path \in DOMAIN repo : repo[path].branches \subseteq repo'[path].branches

\* p is about to create its isolation branch and a branch of that name exists
FindsBranchPresent(p) ==
    /\ pc[p] = "checkout_b"
    /\ ap[p].branch_name.s \in repo[Here(p)].branches

CreationFails(p) ==
    /\ pc'[p] = "returned"
    /\ PyBool(FALSE) = ap'[p].ret
    /\ log'[p][Len(log'[p])].op = BranchCreationOp(p)
    /\ ~log'[p][Len(log'[p])].ok
    /\ "Error: Failed to create branch" \in out'[p]
    /\ repo' = repo

NoStrategyRun(p) == \A i \in 1..Len(log[p]) : ~IsApplyCommand(log[p][i])

\* no pull of the run of p has merged into the branch of p's name
BranchNotPulledInto(p) == ap[p].branch_name.s \notin repo[Here(p)].pulled

C29_ReusedTokenFindsBranch ==
    /\ [][BranchesKept]_vars
    /\ [][\A p \in Procs : FindsBranchPresent(p) /\ pc'[p] # "checkout_b" => CreationFails(p)]_vars
    /\ [](\A p \in Procs :
            BranchCreateFailed(p) => NoStrategyRun(p) /\ tmp = {} /\ BranchNotPulledInto(p))

=============================================================================
